---- MODULE Spec2Model ----
(***************************************************************************)
(* A model of injectpy's resolution engine: Kernel.bind, Kernel._get       *)
(* (src/src/injectpy/kernel.py), Scope, and the parameter inspection the   *)
(* kernel consumes.  _get is modelled as a stack machine whose frames      *)
(* carry the locals of one _get activation and a position (pc) in its      *)
(* body; one Step executes one position.  Sequential operations run the    *)
(* machine to completion in one action, the threaded specification         *)
(* interleaves single Steps of several threads.                            *)
(***************************************************************************)
EXTENDS Integers, Sequences, FiniteSets, TLC

VARIABLES
    bindings,        \* Kernel._bindings: dict service -> list of Binding
    singleton,       \* Kernel._singleton: dict service -> instance
    singleton_lock,  \* Kernel._singleton_lock: RLock (owner, count)
    scopes,          \* the Scope objects made so far, each its _instances dict
    heap,            \* every object built by a constructible target, in order
    threads,         \* per thread: the _get call stack and the call's outcome
    log,             \* history: the completed top-level get calls, in order
    calls,           \* history: every _get activation (interface, scope, via)
    exited,          \* per Scope: its with-block has been left
    closed_before,   \* history: per Scope, the Scopes left before it was made
    nbinds,          \* history: number of configuration calls made
    interceptors,    \* the kernel's interceptor chains: service -> handlers
    routes,          \* per intercepted object: the handlers applied, in order
    module,          \* the Module class being declared, and what it raised
    rebound,         \* history: the last rebind call and the registry before it
    with_exit        \* per Scope: how its with-block was left

vars == <<bindings, singleton, singleton_lock, scopes, heap, threads, log,
          calls, exited, closed_before, nbinds, interceptors, routes, module,
          rebound, with_exit>>

----------------------------------------------------------------------------
(* Bounds of the model *)

MaxBinds == 2
MaxGets == 2
MaxScopes == 2
NumThreads == 2

----------------------------------------------------------------------------
(* Values.  Objects are integers: heap indices for objects the kernel       *)
(* built, negative numbers for objects the caller supplied as instance= or  *)
(* wrote as a parameter's default.                                          *)

None == 0
Supplied == -1
\* a supplied object whose truth value is False (0, "", an empty container)
Falsy == -2
\* the object a constructor names as the default of its parameter
DefaultBus == -3
NoneT == "None"

\* bool(v) of an object as "if v:" tests it
Truthy(v) == v \notin {None, Falsy}

Lifetime == {"singleton", "transient", "scoped"}

\* Binding(service): the attr defaults
Binding(service) ==
    [service |-> service, instance |-> None, to |-> NoneT,
     factory |-> NoneT, lifetime |-> "transient"]

EmptyDict == [x \in {} |-> None]

\* no rebind call has been made
NoRebind == [service |-> NoneT, binding |-> NoneT, before |-> EmptyDict]

\* a Module class whose body has declared nothing yet: no decorated
\* method, no decorator applied, no exception, no instance installed
NoModule == [methods |-> [x \in {} |-> 0], decorated |-> << >>,
             error |-> NoneT, installed |-> FALSE]

\* a with-block that has not been left: __exit__ not called yet
StillOpen == [exc_type |-> NoneT, returned |-> FALSE, raised |-> NoneT]

DictSet(d, key, v) == [x \in (DOMAIN d) \cup {key} |-> IF x = key THEN v ELSE d[x]]

----------------------------------------------------------------------------
(* The program under test: the classes of the test-suite.                  *)

\* classes that cannot be instantiated (abc.ABC with abstract methods)
AbstractClasses == {"IFileSystem", "ISimpleEventBus", "IWebRouter"}

\* the constructors with parameters: per class, name -> [hint, default]
\* (NoneT for no hint; has_default FALSE for inspect.Parameter.empty).
\* MyHandler is scoping_test's (fs: IFileSystem), BusHandler is
\* kernel_test's MyHandler (bus: ISimpleEventBus = None), and
\* DefaultBusHandler is the same class written with an event bus object as
\* the default of bus.  NewTypeHandler is new_type_test's MyHandler (local:
\* IFileSystem, networked: NetworkedFileSystem); NetworkedFileSystem, a
\* typing.NewType, is itself a callable of one parameter without a hint.
Constructors(obj) ==
    IF obj = "MyHandler"
    THEN << [name |-> "fs", hint |-> "IFileSystem",
             has_default |-> FALSE, default |-> None] >>
    ELSE IF obj = "BusHandler"
    THEN << [name |-> "bus", hint |-> "ISimpleEventBus",
             has_default |-> TRUE, default |-> None] >>
    ELSE IF obj = "DefaultBusHandler"
    THEN << [name |-> "bus", hint |-> "ISimpleEventBus",
             has_default |-> TRUE, default |-> DefaultBus] >>
    ELSE IF obj = "NewTypeHandler"
    THEN << [name |-> "local", hint |-> "IFileSystem",
             has_default |-> FALSE, default |-> None],
            [name |-> "networked", hint |-> "NetworkedFileSystem",
             has_default |-> FALSE, default |-> None] >>
    ELSE IF obj = "NetworkedFileSystem"
    THEN << [name |-> "x", hint |-> NoneT,
             has_default |-> FALSE, default |-> None] >>
    ELSE << >>

\* Inspection.inspect(obj).parameters: a Parameter carries the name, the
\* hint and whether a default exists, never the default itself
Inspection_inspect(obj) ==
    [i \in DOMAIN Constructors(obj) |->
        [name |-> Constructors(obj)[i].name,
         has_default |-> Constructors(obj)[i].has_default,
         hint |-> Constructors(obj)[i].hint]]

\* bound_to(**arguments) can be called: every parameter without a default
\* is among the keyword arguments
Callable(bound_to, arguments) ==
    \A i \in DOMAIN Constructors(bound_to) :
        Constructors(bound_to)[i].has_default
        \/ Constructors(bound_to)[i].name \in DOMAIN arguments

\* the attributes __init__ sets: the argument passed for a parameter, or
\* the parameter's default when the call leaves it out
Attributes(bound_to, arguments) ==
    LET ps == Constructors(bound_to)
        names == {ps[i].name : i \in DOMAIN ps}
    IN  [n \in names |->
            IF n \in DOMAIN arguments THEN arguments[n]
            ELSE ps[CHOOSE i \in DOMAIN ps : ps[i].name = n].default]

\* the class of the object bound_to(**arguments) returns
ProducedClass(bound_to) ==
    IF bound_to \in {"s3_factory", "my_filesystem"} THEN "S3FileSystem"
    ELSE IF bound_to = "my_router" THEN "WebRouter"
    ELSE bound_to

----------------------------------------------------------------------------
(* Frames and threads *)

NewFrame(interface, scope, via) ==
    [interface |-> interface, scope |-> scope, via |-> via, pc |-> "lookup",
     binding |-> Binding(interface), lock |-> FALSE, cache |-> "none",
     held |-> FALSE, bound_to |-> NoneT, parameters |-> << >>, pi |-> 1,
     arguments |-> EmptyDict, instance |-> None]

IdleThread ==
    [stack |-> << >>, status |-> "idle", interface |-> NoneT,
     ok |-> FALSE, value |-> None, error |-> NoneT, missed |-> {}]

CallThread(interface, scope) ==
    [stack |-> << NewFrame(interface, scope, "top") >>, status |-> "running",
     interface |-> interface, ok |-> FALSE, value |-> None, error |-> NoneT,
     missed |-> {}]

Top(th) == th.stack[Len(th.stack)]

SetTop(th, f) == [th EXCEPT !.stack = [@ EXCEPT ![Len(@)] = f]]

Push(th, parent, child) ==
    [th EXCEPT !.stack = Append([@ EXCEPT ![Len(@)] = parent], child)]

\* leaving "with lock:" -- RLock.release for the singleton lock, nothing
\* for contextlib.nullcontext
Release(k, f) ==
    IF f.held
    THEN [k EXCEPT !.lock = IF @.count = 1
                             THEN [owner |-> 0, count |-> 0]
                             ELSE [@ EXCEPT !.count = @ - 1]]
    ELSE k

\* "return v" from the top activation: leave its with-block, hand v to the
\* caller (line 138: instance = ...; line 148: the parameter's argument)
Return(k, th, v) ==
    LET f == Top(th)
        n == Len(th.stack)
        k1 == Release(k, f)
    IN  IF n = 1
        THEN [k |-> k1,
              th |-> [th EXCEPT !.stack = << >>, !.status = "done",
                                !.ok = TRUE, !.value = v]]
        ELSE LET p == th.stack[n - 1]
                 p1 == IF p.pc = "await_to"
                       THEN [p EXCEPT !.instance = v, !.pc = "store"]
                       ELSE [p EXCEPT !.arguments =
                                          DictSet(@, p.parameters[p.pi].name, v),
                                      !.pi = @ + 1, !.pc = "params"]
             IN [k |-> k1,
                 th |-> [th EXCEPT !.stack = Append(SubSeq(@, 1, n - 2), p1)]]

\* Raise that leaves the with-blocks without releasing the lock
Raise_keeps_lock(k, th, e) ==
    [k |-> k,
     th |-> [th EXCEPT !.stack = << >>, !.status = "done",
                       !.ok = FALSE, !.error = e]]

\* Raise that also empties the singleton cache
Raise_clears_singleton(k, th, e) ==
    LET nheld == Cardinality({i \in DOMAIN th.stack : th.stack[i].held})
        left == k.lock.count - nheld
    IN  [k |-> [k EXCEPT !.lock = IF nheld = 0 THEN @
                                  ELSE IF left = 0
                                       THEN [owner |-> 0, count |-> 0]
                                       ELSE [@ EXCEPT !.count = left],
                         !.singleton = EmptyDict],
         th |-> [th EXCEPT !.stack = << >>, !.status = "done",
                           !.ok = FALSE, !.error = e]]

\* an exception leaves every activation of the thread; each with-block it
\* passes releases the lock it holds
Raise(k, th, e) ==
    LET nheld == Cardinality({i \in DOMAIN th.stack : th.stack[i].held})
        left == k.lock.count - nheld
    IN  [k |-> [k EXCEPT !.lock = IF nheld = 0 THEN @
                                  ELSE IF left = 0
                                       THEN [owner |-> 0, count |-> 0]
                                       ELSE [@ EXCEPT !.count = left]],
         th |-> [th EXCEPT !.stack = << >>, !.status = "done",
                           !.ok = FALSE, !.error = e]]

----------------------------------------------------------------------------
(* Kernel._get, position by position.  k is the kernel-side state          *)
(* (bindings, singleton, lock, scopes, heap, calls), t the calling thread, *)
(* th its thread record.  Each operator yields [k |-> k', th |-> th'].     *)

\* self._bindings[interface][-1], or Binding(interface) on IndexError
LookupBinding_first(b, interface) ==
    IF interface \in DOMAIN b /\ b[interface] # << >>
    THEN b[interface][1]
    ELSE Binding(interface)

\* lines 108-111: the last Binding appended for the interface, or the
\* default Binding when the list is empty (IndexError)
LookupBinding(b, interface) ==
    IF interface \in DOMAIN b /\ b[interface] # << >>
    THEN b[interface][Len(b[interface])]
    ELSE Binding(interface)

\* DefaultDict.__getitem__: reading a missing key inserts the empty list
DefaultDict_getitem(b, interface) ==
    IF interface \in DOMAIN b THEN b ELSE DictSet(b, interface, << >>)

\* CacheOf with one _instances dict shared by all Scopes
CacheOf_shared_scope(k, f) ==
    IF f.cache = "singleton" THEN k.singleton
    ELSE IF f.cache = "scope" THEN k.scopes[1]
    ELSE EmptyDict

\* the dict the activation named as its cache (None when transient)
CacheOf(k, f) ==
    IF f.cache = "singleton" THEN k.singleton
    ELSE IF f.cache = "scope" THEN k.scopes[f.scope]
    ELSE EmptyDict

\* CacheHit with entries that count only for the binding that built them:
\* an instance of another class than the binding's target is no hit
CacheHit_of_binding(k, f) ==
    /\ f.cache # "none"
    /\ DOMAIN CacheOf(k, f) # {}
    /\ f.binding.service \in DOMAIN CacheOf(k, f)
    /\ LET v == CacheOf(k, f)[f.binding.service]
           target == IF f.binding.to # NoneT THEN f.binding.to
                     ELSE IF f.binding.factory # NoneT THEN f.binding.factory
                     ELSE f.binding.service
       IN  v \in DOMAIN k.heap => k.heap[v].cls = ProducedClass(target)

\* "cache and binding.service in cache"
CacheHit(k, f) ==
    /\ f.cache # "none"
    /\ DOMAIN CacheOf(k, f) # {}
    /\ f.binding.service \in DOMAIN CacheOf(k, f)

\* RedirectScope with the redirect resolved against no scope
RedirectScope_none(f) == None

\* the scope a redirect passes on to the target's resolution
RedirectScope(f) == f.scope

\* ParamScope with every parameter resolved against no scope
ParamScope_none(f) == None

\* the scope a parameter's resolution runs in
ParamScope(f) == f.scope

\* CacheFor with every binding that is not scoped cached in the singleton tier
CacheFor_transient_cached(binding, scope) ==
    IF binding.lifetime = "scoped"
    THEN IF scope = None THEN "raise" ELSE "scope"
    ELSE "singleton"

\* CacheFor with a scoped binding resolved without a scope upgraded to the
\* singleton tier instead of raising
CacheFor_scoped_upgraded(binding, scope) ==
    IF binding.lifetime = "singleton" THEN "singleton"
    ELSE IF binding.lifetime = "scoped"
    THEN IF scope = None THEN "singleton" ELSE "scope"
    ELSE "none"

\* lines 116-127: the cache the binding's lifetime selects; "raise" when a
\* scoped binding is resolved with no scope
CacheFor(binding, scope) ==
    IF binding.lifetime = "singleton" THEN "singleton"
    ELSE IF binding.lifetime = "scoped"
    THEN IF scope = None THEN "raise" ELSE "scope"
    ELSE "none"

\* step_lookup without the "except IndexError": an interface with no
\* Binding raises out of _get
step_lookup_unguarded(k, t, th) ==
    LET f == Top(th)
        binding == LookupBinding(k.bindings, f.interface)
        cache == CacheFor(binding, f.scope)
        k1 == [k EXCEPT !.bindings = DefaultDict_getitem(@, f.interface)]
    IN  IF f.interface \notin DOMAIN k.bindings \/ k.bindings[f.interface] = << >>
        THEN Raise(k1, th, "IndexError")
        ELSE IF Truthy(binding.instance)
        THEN Return(k1, th, binding.instance)
        ELSE IF cache = "raise"
        THEN Raise(k1, th, "BindingIsScoped")
        ELSE [k |-> k1,
              th |-> SetTop(th, [f EXCEPT !.binding = binding,
                                          !.lock = (cache = "singleton"),
                                          !.cache = cache, !.pc = "check"])]

\* lines 108-127: binding lookup, pre-supplied instance, lock and cache choice
\* (k.calls is history: this activation's interface, scope and origin)
step_lookup(k, t, th) ==
    LET f == Top(th)
        n == Len(th.stack)
        binding == LookupBinding(k.bindings, f.interface)
        cache == CacheFor(binding, f.scope)
        k1 == [k EXCEPT
                 !.bindings = DefaultDict_getitem(@, f.interface),
                 !.calls = @ \cup {[interface |-> f.interface,
                                    scope |-> f.scope, via |-> f.via,
                                    caller |-> IF n = 1 THEN f.scope
                                               ELSE th.stack[n - 1].scope]}]
    IN  IF Truthy(binding.instance)
        THEN Return(k1, th, binding.instance)
        ELSE IF cache = "raise"
        THEN Raise(k1, th, "BindingIsScoped")
        ELSE [k |-> k1,
              th |-> SetTop(th, [f EXCEPT !.binding = binding,
                                          !.lock = (cache = "singleton"),
                                          !.cache = cache, !.pc = "check"])]

\* step_check that leaves every cache test to the one made under the lock
step_check_locks_first(k, t, th) ==
    LET f == Top(th)
    IN  [k |-> k,
         th |-> [SetTop(th, [f EXCEPT !.pc = "acquire"])
                   EXCEPT !.missed = IF f.cache = "none" \/ CacheHit(k, f)
                                     THEN @
                                     ELSE @ \cup {f.binding.service}]]

\* step_check whose hit runs the service's interceptor chain on the cached
\* instance once more before returning it
step_check_reintercepts(k, t, th) ==
    LET f == Top(th)
        s == f.binding.service
        chain == IF s \in DOMAIN k.interceptors THEN k.interceptors[s]
                 ELSE << >>
        o == CacheOf(k, f)[s]
        had == IF o \in DOMAIN k.routes THEN k.routes[o] ELSE << >>
    IN  IF CacheHit(k, f)
        THEN Return(IF chain = << >> THEN k
                    ELSE [k EXCEPT !.routes = DictSet(@, o, had \o chain)],
                    th, o)
        ELSE [k |-> k,
              th |-> [SetTop(th, [f EXCEPT !.pc = "acquire"])
                        EXCEPT !.missed = IF f.cache = "none" THEN @
                                          ELSE @ \cup {f.binding.service}]]

\* lines 129-130: the check before the lock (th.missed is history: the
\* services whose cache this check found empty)
step_check(k, t, th) ==
    LET f == Top(th)
    IN  IF CacheHit(k, f)
        THEN Return(k, th, CacheOf(k, f)[f.binding.service])
        ELSE [k |-> k,
              th |-> [SetTop(th, [f EXCEPT !.pc = "acquire"])
                        EXCEPT !.missed = IF f.cache = "none" THEN @
                                          ELSE @ \cup {f.binding.service}]]

\* line 132: "with lock:" -- RLock.acquire (re-entrant) or nullcontext
step_acquire(k, t, th) ==
    LET f == Top(th)
    IN  IF f.lock
        THEN [k |-> [k EXCEPT !.lock = [owner |-> t, count |-> @.count + 1]],
              th |-> SetTop(th, [f EXCEPT !.held = TRUE, !.pc = "recheck"])]
        ELSE [k |-> k, th |-> SetTop(th, [f EXCEPT !.pc = "recheck"])]

\* step_recheck without the second look at the cache
step_recheck_unchecked(k, t, th) ==
    [k |-> k, th |-> SetTop(th, [Top(th) EXCEPT !.pc = "build"])]

\* lines 134-135: the check under the lock
step_recheck(k, t, th) ==
    LET f == Top(th)
    IN  IF CacheHit(k, f)
        THEN Return(k, th, CacheOf(k, f)[f.binding.service])
        ELSE [k |-> k, th |-> SetTop(th, [f EXCEPT !.pc = "build"])]

\* step_build constructing the class named by to= directly, without
\* resolving that class through its own binding
step_build_one_hop(k, t, th) ==
    LET f == Top(th)
        bound_to == IF f.binding.to # NoneT THEN f.binding.to
                    ELSE IF f.binding.factory # NoneT THEN f.binding.factory
                    ELSE f.binding.service
    IN [k |-> k,
        th |-> SetTop(th, [f EXCEPT
                   !.bound_to = bound_to,
                   !.parameters = Inspection_inspect(bound_to),
                   !.pi = 1, !.arguments = EmptyDict,
                   !.pc = "params"])]

\* lines 137-141: follow the redirect, or pick and inspect the target
step_build(k, t, th) ==
    LET f == Top(th)
    IN  IF f.binding.to # NoneT
        THEN [k |-> k,
              th |-> Push(th, [f EXCEPT !.pc = "await_to"],
                          NewFrame(f.binding.to, RedirectScope(f), "to"))]
        ELSE LET bound_to == IF f.binding.factory # NoneT
                             THEN f.binding.factory
                             ELSE f.binding.service
             IN [k |-> k,
                 th |-> SetTop(th, [f EXCEPT
                            !.bound_to = bound_to,
                            !.parameters = Inspection_inspect(bound_to),
                            !.pi = 1, !.arguments = EmptyDict,
                            !.pc = "params"])]

\* lines 143-154: the next parameter of the comprehension
step_params(k, t, th) ==
    LET f == Top(th)
    IN  IF f.pi > Len(f.parameters)
        THEN [k |-> k, th |-> SetTop(th, [f EXCEPT !.pc = "construct"])]
        ELSE LET param == f.parameters[f.pi]
             IN IF param.hint = NoneT
                THEN [k |-> k, th |-> SetTop(th, [f EXCEPT !.pi = @ + 1])]
                ELSE IF param.has_default /\ param.hint \notin DOMAIN k.bindings
                THEN [k |-> k,
                      th |-> SetTop(th, [f EXCEPT
                                 !.arguments = DictSet(@, param.name, None),
                                 !.pi = @ + 1])]
                ELSE [k |-> k,
                      th |-> Push(th, [f EXCEPT !.pc = "await_param"],
                                  NewFrame(param.hint, ParamScope(f), "param"))]

\* step_construct with the cache entry of the service written before the
\* target is called
step_construct_caches_first(k, t, th) ==
    LET f == Top(th)
        k0 == IF f.cache = "singleton"
              THEN [k EXCEPT !.singleton = DictSet(@, f.binding.service, None)]
              ELSE IF f.cache = "scope"
              THEN [k EXCEPT !.scopes[f.scope] =
                        DictSet(@, f.binding.service, None)]
              ELSE k
    IN  IF f.bound_to \in AbstractClasses \/ ~Callable(f.bound_to, f.arguments)
        THEN Raise(k0, th, "TypeError")
        ELSE LET obj == [cls |-> ProducedClass(f.bound_to),
                         arguments |-> f.arguments,
                         attrs |-> Attributes(f.bound_to, f.arguments)]
                 k1 == [k0 EXCEPT !.heap = Append(@, obj)]
             IN [k |-> k1,
                 th |-> SetTop(th, [f EXCEPT !.instance = Len(k1.heap),
                                             !.pc = "store"])]

\* line 156: instance = bound_to(**arguments)
step_construct(k, t, th) ==
    LET f == Top(th)
    IN  IF f.bound_to \in AbstractClasses \/ ~Callable(f.bound_to, f.arguments)
        THEN Raise(k, th, "TypeError")
        ELSE LET obj == [cls |-> ProducedClass(f.bound_to),
                         arguments |-> f.arguments,
                         attrs |-> Attributes(f.bound_to, f.arguments)]
                 k1 == [k EXCEPT !.heap = Append(@, obj)]
             IN [k |-> k1,
                 th |-> SetTop(th, [f EXCEPT !.instance = Len(k1.heap),
                                             !.pc = "store"])]

\* step_store that never writes the singleton cache
step_store_no_singleton(k, t, th) ==
    LET f == Top(th)
        k1 == IF f.cache = "scope"
              THEN [k EXCEPT !.scopes[f.scope] =
                        DictSet(@, f.binding.service, f.instance)]
              ELSE k
    IN  Return(k1, th, f.instance)

\* step_store that never writes a Scope's cache
step_store_no_scope(k, t, th) ==
    LET f == Top(th)
        k1 == IF f.cache = "singleton"
              THEN [k EXCEPT !.singleton =
                        DictSet(@, f.binding.service, f.instance)]
              ELSE k
    IN  Return(k1, th, f.instance)

\* step_store that keys the entry by the redirect target, not the service
step_store_keyed_by_target(k, t, th) ==
    LET f == Top(th)
        key == IF f.binding.to # NoneT THEN f.binding.to ELSE f.binding.service
        k1 == IF f.cache = "singleton"
              THEN [k EXCEPT !.singleton = DictSet(@, key, f.instance)]
              ELSE IF f.cache = "scope"
              THEN [k EXCEPT !.scopes[f.scope] = DictSet(@, key, f.instance)]
              ELSE k
    IN  Return(k1, th, f.instance)

\* lines 158-161: populate the cache, leave the with-block, return
step_store(k, t, th) ==
    LET f == Top(th)
        k1 == IF f.cache = "singleton"
              THEN [k EXCEPT !.singleton =
                        DictSet(@, f.binding.service, f.instance)]
              ELSE IF f.cache = "scope"
              THEN [k EXCEPT !.scopes[f.scope] =
                        DictSet(@, f.binding.service, f.instance)]
              ELSE k
    IN  Return(k1, th, f.instance)

\* the routes an interceptor's add_route calls have left on an object
RoutesOf(r, obj) == IF obj \in DOMAIN r THEN r[obj] ELSE << >>

\* the interceptor chain registered for a service identity
ChainOf(ic, service) == IF service \in DOMAIN ic THEN ic[service] ELSE << >>

\* the chain of handlers in the order handler2, handler1 for a registration
\* order handler1, handler2
Reversed(chain) == [i \in DOMAIN chain |-> chain[Len(chain) + 1 - i]]

\* step_intercept running the chain last-registered first
step_intercept_reversed(k, t, th) ==
    LET f == Top(th)
        chain == Reversed(ChainOf(k.interceptors, f.binding.service))
    IN  IF chain = << >> THEN [k |-> k, th |-> th]
        ELSE [k |-> [k EXCEPT !.routes =
                        DictSet(@, f.instance, RoutesOf(@, f.instance) \o chain)],
              th |-> th]

\* the interceptor chain of the activation's service identity runs, in
\* registration order, on the instance the activation has just obtained
\* (built, or returned by the redirect target's activation), before the
\* instance is stored and returned; each handler leaves its route on it
step_intercept(k, t, th) ==
    LET f == Top(th)
        chain == ChainOf(k.interceptors, f.binding.service)
    IN  IF chain = << >> THEN [k |-> k, th |-> th]
        ELSE [k |-> [k EXCEPT !.routes =
                        DictSet(@, f.instance, RoutesOf(@, f.instance) \o chain)],
              th |-> th]

\* one position of the running activation of thread t
Step(k, t, th) ==
    LET pc == Top(th).pc
    IN  CASE pc = "lookup" -> step_lookup(k, t, th)
          [] pc = "check" -> step_check(k, t, th)
          [] pc = "acquire" -> step_acquire(k, t, th)
          [] pc = "recheck" -> step_recheck(k, t, th)
          [] pc = "build" -> step_build(k, t, th)
          [] pc = "params" -> step_params(k, t, th)
          [] pc = "construct" -> step_construct(k, t, th)
          [] pc = "store" -> LET r == step_intercept(k, t, th)
                             IN  step_store(r.k, t, r.th)

\* RLock.acquire blocks while another thread owns the lock
Blocked(k, t, th) ==
    /\ th.status = "running"
    /\ Top(th).pc = "acquire"
    /\ Top(th).lock
    /\ k.lock.owner \notin {0, t}

\* a call made by a thread that nothing interleaves with, run to its end
RECURSIVE Run(_, _, _)
Run(k, t, th) ==
    IF th.status = "done" THEN [k |-> k, th |-> th]
    ELSE LET r == Step(k, t, th) IN Run(r.k, t, r.th)

\* Kernel._get(interface, scope) called by thread t on kernel state k
Kernel__get(k, t, interface, scope) == Run(k, t, CallThread(interface, scope))

----------------------------------------------------------------------------
(* State and operations *)

K == [bindings |-> bindings, singleton |-> singleton, lock |-> singleton_lock,
      scopes |-> scopes, heap |-> heap, calls |-> calls,
      interceptors |-> interceptors, routes |-> routes]

SetK(k) ==
    /\ bindings' = k.bindings
    /\ singleton' = k.singleton
    /\ singleton_lock' = k.lock
    /\ scopes' = k.scopes
    /\ heap' = k.heap
    /\ calls' = k.calls
    /\ interceptors' = k.interceptors
    /\ routes' = k.routes

\* Kernel.__init__; no Scope made, no call made
Init ==
    /\ bindings = EmptyDict
    /\ singleton = EmptyDict
    /\ singleton_lock = [owner |-> 0, count |-> 0]
    /\ scopes = << >>
    /\ heap = << >>
    /\ threads = << >>
    /\ log = << >>
    /\ calls = {}
    /\ exited = << >>
    /\ closed_before = << >>
    /\ nbinds = 0
    /\ interceptors = EmptyDict
    /\ routes = EmptyDict
    /\ module = NoModule
    /\ rebound = NoRebind
    /\ with_exit = [i \in DOMAIN exited |-> StillOpen]

\* Kernel.bind(service, to=, factory=, instance=, lifetime=)
bind(service, to, factory, instance, lifetime) ==
    /\ nbinds < MaxBinds
    /\ bindings' = DictSet(bindings, service,
                       Append(IF service \in DOMAIN bindings
                              THEN bindings[service] ELSE << >>,
                              [service |-> service, instance |-> instance,
                               to |-> to, factory |-> factory,
                               lifetime |-> lifetime]))
    /\ nbinds' = nbinds + 1
    /\ UNCHANGED <<singleton, singleton_lock, scopes, heap, threads, log,
                   calls, exited, closed_before>>
    /\ UNCHANGED <<interceptors, routes, module, rebound, with_exit>>

\* rebind as one more bind: the earlier bindings of the service are kept
rebind_appends(service, to, factory, instance, lifetime) ==
    /\ nbinds < MaxBinds
    /\ LET b == [service |-> service, instance |-> instance, to |-> to,
                 factory |-> factory, lifetime |-> lifetime]
       IN  /\ bindings' = DictSet(bindings, service,
                              Append(IF service \in DOMAIN bindings
                                     THEN bindings[service] ELSE << >>, b))
           /\ rebound' = [service |-> service, binding |-> b,
                          before |-> bindings]
    /\ nbinds' = nbinds + 1
    /\ UNCHANGED <<singleton, singleton_lock, scopes, heap, threads, log,
                   calls, exited, closed_before, interceptors, routes, module,
                   with_exit>>

\* rebind that deletes the service's entry, which must exist
rebind_needs_prior(service, to, factory, instance, lifetime) ==
    /\ nbinds < MaxBinds
    /\ LET b == [service |-> service, instance |-> instance, to |-> to,
                 factory |-> factory, lifetime |-> lifetime]
       IN  /\ bindings' = IF service \in DOMAIN bindings
                          THEN DictSet(bindings, service, << b >>)
                          ELSE bindings
           /\ rebound' = [service |-> service, binding |-> b,
                          before |-> bindings]
    /\ nbinds' = nbinds + 1
    /\ UNCHANGED <<singleton, singleton_lock, scopes, heap, threads, log,
                   calls, exited, closed_before, interceptors, routes, module,
                   with_exit>>

\* Kernel.rebind(service, to=, factory=, instance=, lifetime=): removes all
\* existing bindings for the service and adds the new one; nothing is
\* required of the registry before the call
rebind(service, to, factory, instance, lifetime) ==
    /\ nbinds < MaxBinds
    /\ LET b == [service |-> service, instance |-> instance, to |-> to,
                 factory |-> factory, lifetime |-> lifetime]
       IN  /\ bindings' = DictSet(bindings, service, << b >>)
           /\ rebound' = [service |-> service, binding |-> b,
                          before |-> bindings]
    /\ nbinds' = nbinds + 1
    /\ UNCHANGED <<singleton, singleton_lock, scopes, heap, threads, log,
                   calls, exited, closed_before, interceptors, routes, module,
                   with_exit>>

\* Kernel.intercept(service, handler=handler): appends the handler to the
\* interceptor chain of the service
intercept(service, handler) ==
    /\ nbinds < MaxBinds
    /\ interceptors' = DictSet(interceptors, service,
                            Append(ChainOf(interceptors, service), handler))
    /\ nbinds' = nbinds + 1
    /\ UNCHANGED <<bindings, singleton, singleton_lock, scopes, heap, threads,
                   log, calls, exited, closed_before, routes, module, rebound, with_exit>>

\* nested_scope whose new Scope starts with the cache of the Scope made last
nested_scope_inherits ==
    /\ Len(scopes) < MaxScopes
    /\ scopes' = Append(scopes, IF scopes = << >> THEN EmptyDict
                                ELSE scopes[Len(scopes)])
    /\ exited' = Append(exited, FALSE)
    /\ with_exit' = Append(with_exit, StillOpen)
    /\ closed_before' = Append(closed_before, {i \in DOMAIN exited : exited[i]})
    /\ UNCHANGED <<bindings, singleton, singleton_lock, heap, threads, log,
                   calls, nbinds>>
    /\ UNCHANGED <<interceptors, routes, module, rebound>>

\* "with kernel.nested_scope() as scope:" -- a new Scope with an empty
\* _instances, entered
nested_scope ==
    /\ Len(scopes) < MaxScopes
    /\ scopes' = Append(scopes, EmptyDict)
    /\ exited' = Append(exited, FALSE)
    /\ with_exit' = Append(with_exit, StillOpen)
    /\ closed_before' = Append(closed_before, {i \in DOMAIN exited : exited[i]})
    /\ UNCHANGED <<bindings, singleton, singleton_lock, heap, threads, log,
                   calls, nbinds>>
    /\ UNCHANGED <<interceptors, routes, module, rebound>>

\* the with statement after __exit__ returned: an exception of the body
\* is raised again unless __exit__ returned a true value
WithStatement(exc_type, returned) ==
    [exc_type |-> exc_type, returned |-> returned,
     raised |-> IF returned THEN NoneT ELSE exc_type]

\* __exit__ that resets the cache only when the block ended normally
Scope___exit___keeps_on_error(sc, exc_type) ==
    /\ sc \in DOMAIN scopes
    /\ ~exited[sc]
    /\ scopes' = IF exc_type = NoneT
                 THEN [scopes EXCEPT ![sc] = EmptyDict]
                 ELSE scopes
    /\ exited' = [exited EXCEPT ![sc] = TRUE]
    /\ with_exit' = [with_exit EXCEPT ![sc] = WithStatement(exc_type, FALSE)]
    /\ UNCHANGED <<bindings, singleton, singleton_lock, heap, threads, log,
                   calls, closed_before, nbinds>>
    /\ UNCHANGED <<interceptors, routes, module, rebound>>

\* __exit__ that also empties the kernel's singleton cache
Scope___exit___drops_singletons(sc, exc_type) ==
    /\ sc \in DOMAIN scopes
    /\ ~exited[sc]
    /\ scopes' = [scopes EXCEPT ![sc] = EmptyDict]
    /\ singleton' = EmptyDict
    /\ exited' = [exited EXCEPT ![sc] = TRUE]
    /\ with_exit' = [with_exit EXCEPT ![sc] = WithStatement(exc_type, FALSE)]
    /\ UNCHANGED <<bindings, singleton_lock, heap, threads, log,
                   calls, closed_before, nbinds>>
    /\ UNCHANGED <<interceptors, routes, module, rebound>>

\* leaving the with-block, normally (exc_type None) or by an exception of
\* its body: Scope.__exit__(exc_type, exc_val, exc_tb) sets
\* self._instances = OrderedDict() and returns False
Scope___exit__(sc, exc_type) ==
    /\ sc \in DOMAIN scopes
    /\ ~exited[sc]
    /\ scopes' = [scopes EXCEPT ![sc] = EmptyDict]
    /\ exited' = [exited EXCEPT ![sc] = TRUE]
    /\ with_exit' = [with_exit EXCEPT ![sc] = WithStatement(exc_type, FALSE)]
    /\ UNCHANGED <<bindings, singleton, singleton_lock, heap, threads, log,
                   calls, closed_before, nbinds>>
    /\ UNCHANGED <<interceptors, routes, module, rebound>>

\* the service identities of the test-suite used here
Services == {"InMemoryFileSystem", "IFileSystem", "MyHandler"}

\* the services that have a registered Binding
Bound(b) == {s \in DOMAIN b : b[s] # << >>}

\* the history entry of a completed top-level call: what was asked, the
\* latest binding of every service when it was asked (and which services
\* had one, the keys of _bindings, the objects built so far), the outcome,
\* and the instances the scope's cache held when the call ended
LogEntry(interface, scope, r) ==
    [interface |-> interface, scope |-> scope,
     binding |-> LookupBinding(bindings, interface),
     cfg |-> [s \in Services |-> LookupBinding(bindings, s)],
     bound |-> Bound(bindings), keys |-> DOMAIN bindings,
     keys_after |-> DOMAIN r.k.bindings,
     registry |-> bindings, rebound |-> rebound, module |-> module,
     built |-> Len(heap),
     built_after |-> Len(r.k.heap), singleton_before |-> singleton,
     singleton_after |-> r.k.singleton,
     interceptors |-> interceptors, routes_before |-> routes,
     routes_after |-> r.k.routes,
     scope_before |-> IF scope = None THEN EmptyDict ELSE scopes[scope],
     scope_after |-> IF scope = None THEN EmptyDict ELSE r.k.scopes[scope],
     cached |-> IF scope = None THEN {}
                ELSE {r.k.scopes[scope][s] : s \in DOMAIN r.k.scopes[scope]},
     ok |-> r.th.ok, value |-> r.th.value, error |-> r.th.error]

\* Kernel.get(interface): self._get(interface)
Kernel_get(interface) ==
    /\ Len(log) < MaxGets
    /\ LET r == Kernel__get(K, 1, interface, None)
       IN  /\ SetK(r.k)
           /\ log' = Append(log, LogEntry(interface, None, r))
    /\ UNCHANGED <<threads, exited, closed_before, nbinds>>
    /\ UNCHANGED <<module, rebound, with_exit>>

\* Scope.get(interface): self._kernel._get(interface, scope=self), called
\* inside the Scope's with-block
Scope_get(sc, interface) ==
    /\ Len(log) < MaxGets
    /\ sc \in DOMAIN scopes
    /\ ~exited[sc]
    /\ LET r == Kernel__get(K, 1, interface, sc)
       IN  /\ SetK(r.k)
           /\ log' = Append(log, LogEntry(interface, sc, r))
    /\ UNCHANGED <<threads, exited, closed_before, nbinds>>
    /\ UNCHANGED <<module, rebound, with_exit>>

----------------------------------------------------------------------------
(* Inputs *)

\* the bind calls made on InMemoryFileSystem: every lifetime, with and
\* without a supplied instance
FsBindings ==
    {[service |-> "InMemoryFileSystem", instance |-> i, to |-> NoneT,
      factory |-> NoneT, lifetime |-> l] : l \in Lifetime, i \in {None, Supplied}}

\* the bind calls made on IFileSystem: every lifetime, to itself or
\* redirected to InMemoryFileSystem
IfsBindings ==
    {[service |-> "IFileSystem", instance |-> None, to |-> to,
      factory |-> NoneT, lifetime |-> l] :
        l \in Lifetime, to \in {NoneT, "InMemoryFileSystem"}}

\* the registry after bind calls b1, b2, ... (a sequence of Binding)
RECURSIVE Configured(_)
Configured(bs) ==
    IF bs = << >> THEN EmptyDict
    ELSE LET rest == Configured(SubSeq(bs, 1, Len(bs) - 1))
             b == bs[Len(bs)]
         IN DictSet(rest, b.service,
                    Append(IF b.service \in DOMAIN rest
                           THEN rest[b.service] ELSE << >>, b))

----------------------------------------------------------------------------
(* Spec: one caller of one kernel; bind calls (lifetimes, redirects,       *)
(* supplied instances) interleaved with kernel.get calls.                  *)

Next ==
    \/ \E b \in FsBindings \cup IfsBindings :
           bind(b.service, b.to, b.factory, b.instance, b.lifetime)
    \/ \E s \in Services : Kernel_get(s)

Spec == Init /\ [][Next]_vars

----------------------------------------------------------------------------
(* SpecScoped: a configured kernel (at most one binding per service) used  *)
(* by one caller through with-blocks of nested scopes and directly.        *)

InitScoped ==
    /\ \E fs \in {<< >>} \cup {<<b>> : b \in FsBindings},
          ifs \in {<< >>} \cup {<<b>> : b \in IfsBindings} :
           bindings = Configured(fs \o ifs)
    /\ singleton = EmptyDict
    /\ singleton_lock = [owner |-> 0, count |-> 0]
    /\ scopes = << >>
    /\ heap = << >>
    /\ threads = << >>
    /\ log = << >>
    /\ calls = {}
    /\ exited = << >>
    /\ closed_before = << >>
    /\ nbinds = 0
    /\ interceptors = EmptyDict
    /\ routes = EmptyDict
    /\ module = NoModule
    /\ rebound = NoRebind
    /\ with_exit = [i \in DOMAIN exited |-> StillOpen]

NextScoped ==
    \/ nested_scope
    \/ \E sc \in 1..MaxScopes : Scope___exit__(sc, NoneT)
    \/ \E s \in Services, sc \in 1..MaxScopes : Scope_get(sc, s)
    \/ \E s \in Services : Kernel_get(s)

SpecScoped == InitScoped /\ [][NextScoped]_vars

----------------------------------------------------------------------------
(* SpecThreads: NumThreads threads, each calling kernel.get once on a      *)
(* configured kernel; the threads' _get activations interleave position    *)
(* by position and meet at the singleton lock.                             *)

\* a thread calls kernel.get(interface)
thread_call(t, interface) ==
    /\ threads[t].status = "idle"
    /\ threads' = [threads EXCEPT ![t] = CallThread(interface, None)]
    /\ UNCHANGED <<bindings, singleton, singleton_lock, scopes, heap, log,
                   calls, exited, closed_before, nbinds>>
    /\ UNCHANGED <<interceptors, routes, module, rebound, with_exit>>

\* the thread executes the next position of its _get activation
thread_step(t) ==
    /\ threads[t].status = "running"
    /\ ~Blocked(K, t, threads[t])
    /\ LET r == Step(K, t, threads[t])
       IN  /\ SetK(r.k)
           /\ threads' = [threads EXCEPT ![t] = r.th]
    /\ UNCHANGED <<log, exited, closed_before, nbinds>>
    /\ UNCHANGED <<module, rebound, with_exit>>

ThreadIds == 1..NumThreads

HandlerBindings ==
    {[service |-> "MyHandler", instance |-> None, to |-> NoneT,
      factory |-> NoneT, lifetime |-> "singleton"]}

InitThreads ==
    /\ \E fs \in {<<b>> : b \in {x \in FsBindings : x.instance = None}},
          ifs \in {<<b>> : b \in {x \in IfsBindings : x.lifetime # "scoped"}},
          h \in {<< >>} \cup {<<b>> : b \in HandlerBindings} :
           bindings = Configured(fs \o ifs \o h)
    /\ singleton = EmptyDict
    /\ singleton_lock = [owner |-> 0, count |-> 0]
    /\ scopes = << >>
    /\ heap = << >>
    /\ threads = [t \in ThreadIds |-> IdleThread]
    /\ log = << >>
    /\ calls = {}
    /\ exited = << >>
    /\ closed_before = << >>
    /\ nbinds = 0
    /\ interceptors = EmptyDict
    /\ routes = EmptyDict
    /\ module = NoModule
    /\ rebound = NoRebind
    /\ with_exit = [i \in DOMAIN exited |-> StillOpen]

NextThreads ==
    \/ \E t \in ThreadIds, s \in Services : thread_call(t, s)
    \/ \E t \in ThreadIds : thread_step(t)

SpecThreads == InitThreads /\ [][NextThreads]_vars

\* a singleton handler over a singleton IFileSystem that is redirected
\* to InMemoryFileSystem or left abstract, over a singleton or scoped
\* InMemoryFileSystem: the gets succeed, or raise inside the lock
FairBindings ==
    {<<[service |-> "InMemoryFileSystem", instance |-> None, to |-> NoneT,
        factory |-> NoneT, lifetime |-> l],
       [service |-> "IFileSystem", instance |-> None, to |-> to,
        factory |-> NoneT, lifetime |-> "singleton"],
       [service |-> "MyHandler", instance |-> None, to |-> NoneT,
        factory |-> NoneT, lifetime |-> "singleton"]>> :
     l \in {"singleton", "scoped"}, to \in {NoneT, "InMemoryFileSystem"}}

InitFair ==
    /\ \E bs \in FairBindings : bindings = Configured(bs)
    /\ singleton = EmptyDict
    /\ singleton_lock = [owner |-> 0, count |-> 0]
    /\ scopes = << >>
    /\ heap = << >>
    /\ threads = [t \in ThreadIds |-> IdleThread]
    /\ log = << >>
    /\ calls = {}
    /\ exited = << >>
    /\ closed_before = << >>
    /\ nbinds = 0
    /\ interceptors = EmptyDict
    /\ routes = EmptyDict
    /\ module = NoModule
    /\ rebound = NoRebind
    /\ with_exit = << >>

NextFair ==
    \/ \E t \in ThreadIds, s \in {"MyHandler", "IFileSystem"} :
           thread_call(t, s)
    \/ \E t \in ThreadIds : thread_step(t)

\* the threads are scheduled again and again: a thread that has called get
\* and is not waiting for the lock takes its next step
FairThreads ==
    /\ InitFair
    /\ [][NextFair]_vars
    /\ \A t \in ThreadIds : WF_vars(thread_step(t))

----------------------------------------------------------------------------
(* SpecOptional: one caller of one kernel resolving handlers whose         *)
(* constructor parameter bus: ISimpleEventBus has a default, while         *)
(* ISimpleEventBus is bound, or not, in between.                           *)

\* the bind calls made on the event bus classes
BusBindings ==
    {[service |-> "ISimpleEventBus", instance |-> None, to |-> "NoopEventBus",
      factory |-> NoneT, lifetime |-> l] : l \in {"transient", "singleton"}}
    \cup {[service |-> "NoopEventBus", instance |-> None, to |-> NoneT,
            factory |-> NoneT, lifetime |-> "singleton"]}

BusServices ==
    {"BusHandler", "DefaultBusHandler", "ISimpleEventBus", "NoopEventBus"}

NextOptional ==
    \/ \E b \in BusBindings :
           bind(b.service, b.to, b.factory, b.instance, b.lifetime)
    \/ \E s \in BusServices : Kernel_get(s)

SpecOptional == Init /\ [][NextOptional]_vars

----------------------------------------------------------------------------
(* SpecRegistry: one caller of one kernel; bind and rebind calls on        *)
(* IFileSystem (to S3FileSystem, to LocalFileSystem) and on the            *)
(* implementations, interleaved with kernel.get calls.                     *)

RegistryBindings ==
    {[service |-> "IFileSystem", instance |-> None, to |-> to,
      factory |-> NoneT, lifetime |-> "transient"] :
        to \in {"S3FileSystem", "LocalFileSystem"}}
    \cup {[service |-> "S3FileSystem", instance |-> None, to |-> NoneT,
            factory |-> NoneT, lifetime |-> l] : l \in {"transient", "singleton"}}

RegistryServices == {"IFileSystem", "S3FileSystem", "LocalFileSystem"}

NextRegistry ==
    \/ \E b \in RegistryBindings :
           bind(b.service, b.to, b.factory, b.instance, b.lifetime)
    \/ \E b \in RegistryBindings :
           rebind(b.service, b.to, b.factory, b.instance, b.lifetime)
    \/ \E s \in RegistryServices : Kernel_get(s)

SpecRegistry == Init /\ [][NextRegistry]_vars

----------------------------------------------------------------------------
(* SpecRetry: a kernel on which MyHandler (fs: IFileSystem) is bound with  *)
(* a caching lifetime, used directly and through one open scope, while     *)
(* IFileSystem is bound to something that can be built, or not.            *)

RetryBindings ==
    {[service |-> "IFileSystem", instance |-> None, to |-> to,
      factory |-> NoneT, lifetime |-> l] :
        to \in {NoneT, "InMemoryFileSystem"}, l \in {"transient", "singleton"}}

CachedHandlerBindings ==
    {[service |-> "MyHandler", instance |-> None, to |-> NoneT,
      factory |-> NoneT, lifetime |-> l] : l \in {"singleton", "scoped"}}

RetryServices == {"MyHandler", "IFileSystem"}

InitRetry ==
    /\ \E b \in CachedHandlerBindings : bindings = Configured(<< b >>)
    /\ singleton = EmptyDict
    /\ singleton_lock = [owner |-> 0, count |-> 0]
    /\ scopes = << EmptyDict >>
    /\ heap = << >>
    /\ threads = << >>
    /\ log = << >>
    /\ calls = {}
    /\ exited = << FALSE >>
    /\ closed_before = << {} >>
    /\ nbinds = 0
    /\ interceptors = EmptyDict
    /\ routes = EmptyDict
    /\ module = NoModule
    /\ rebound = NoRebind
    /\ with_exit = [i \in DOMAIN exited |-> StillOpen]

NextRetry ==
    \/ \E b \in RetryBindings :
           bind(b.service, b.to, b.factory, b.instance, b.lifetime)
    \/ \E s \in RetryServices : Kernel_get(s)
    \/ \E s \in RetryServices : Scope_get(1, s)

SpecRetry == InitRetry /\ [][NextRetry]_vars

----------------------------------------------------------------------------
(* SpecInstance: one caller of one kernel; bind calls that supply an       *)
(* instance (an object that is true, or one that is false, under bool)     *)
(* interleaved with kernel.get calls.                                      *)

InstanceBindings ==
    {[service |-> "InMemoryFileSystem", instance |-> i, to |-> NoneT,
      factory |-> NoneT, lifetime |-> l] :
        i \in {Supplied, Falsy}, l \in {"transient", "singleton"}}
    \cup {[service |-> "IFileSystem", instance |-> None,
            to |-> "InMemoryFileSystem", factory |-> NoneT,
            lifetime |-> "transient"]}

InstanceServices == {"InMemoryFileSystem", "IFileSystem"}

NextInstance ==
    \/ \E b \in InstanceBindings :
           bind(b.service, b.to, b.factory, b.instance, b.lifetime)
    \/ \E s \in InstanceServices : Kernel_get(s)

SpecInstance == Init /\ [][NextInstance]_vars

----------------------------------------------------------------------------
(* SpecIntercept: a kernel on which IWebRouter is bound to WebRouter (or   *)
(* not bound); intercept calls on both identities interleaved with         *)
(* kernel.get calls.                                                       *)

RouterBindings ==
    {[service |-> "IWebRouter", instance |-> None, to |-> "WebRouter",
      factory |-> NoneT, lifetime |-> l] : l \in {"transient", "singleton"}}

RouterServices == {"IWebRouter", "WebRouter"}

Handlers == {"handler1", "handler2"}

InitIntercept ==
    /\ \E bs \in {<< >>} \cup {<<b>> : b \in RouterBindings} :
           bindings = Configured(bs)
    /\ singleton = EmptyDict
    /\ singleton_lock = [owner |-> 0, count |-> 0]
    /\ scopes = << >>
    /\ heap = << >>
    /\ threads = << >>
    /\ log = << >>
    /\ calls = {}
    /\ exited = << >>
    /\ closed_before = << >>
    /\ nbinds = 0
    /\ interceptors = EmptyDict
    /\ routes = EmptyDict
    /\ module = NoModule
    /\ rebound = NoRebind
    /\ with_exit = [i \in DOMAIN exited |-> StillOpen]

NextIntercept ==
    \/ \E s \in RouterServices, h \in Handlers : intercept(s, h)
    \/ \E s \in RouterServices : Kernel_get(s)

SpecIntercept == InitIntercept /\ [][NextIntercept]_vars

----------------------------------------------------------------------------
(* Modules: the factory() and intercept() decorators applied in the body   *)
(* of a Module subclass, and Kernel.install of an instance of the class.   *)

MaxParams == 3

ParameterKind == <<"POSITIONAL_ONLY", "POSITIONAL_OR_KEYWORD",
                   "VAR_POSITIONAL", "KEYWORD_ONLY", "VAR_KEYWORD">>

\* the place of a kind in the order a def statement requires
KindRank(kind) == CHOOSE i \in DOMAIN ParameterKind : ParameterKind[i] = kind

\* the names the parameters of a decorated method carry, by position
ParamNames == <<"self", "something", "a", "b", "c">>

\* the kinds of a def statement Python accepts: in order, at most one
\* *args and one **kwargs, self first and neither starred nor keyword-only
WellFormed(kinds) ==
    /\ kinds[1] \in {"POSITIONAL_ONLY", "POSITIONAL_OR_KEYWORD"}
    /\ \A i, j \in DOMAIN kinds :
           i < j => /\ KindRank(kinds[i]) <= KindRank(kinds[j])
                    /\ kinds[i] = kinds[j]
                         => kinds[i] \notin {"VAR_POSITIONAL", "VAR_KEYWORD"}

\* Inspection.inspect(fn).parameters of the methods a module declares: self
\* (without a hint) and up to MaxParams parameters, each with or without
\* a hint
Signatures ==
    UNION {
      {[i \in 1..n |-> [name |-> ParamNames[i], kind |-> kinds[i],
                        hint |-> hints[i]]] :
          kinds \in {ks \in [1..n -> {ParameterKind[i] :
                                        i \in DOMAIN ParameterKind}] :
                        WellFormed(ks)},
          hints \in {hs \in [1..n -> {NoneT, "WebRouter"}] : hs[1] = NoneT}} :
      n \in 1..(MaxParams + 1)}

\* Parameter.is_positional
is_positional(param) == param.kind = "POSITIONAL_OR_KEYWORD"

\* get_first_hint(cb): positional[1] of the positional-or-keyword
\* parameters (positional[0] is taken to be self); IndexError and a missing
\* hint become RuntimeError
get_first_hint(sig) ==
    LET positional == SelectSeq(sig, is_positional)
    IN  IF Len(positional) < 2
        THEN [ok |-> FALSE, hint |-> NoneT,
              error |-> "RuntimeError: has no first positional argument"]
        ELSE IF positional[2].hint = NoneT
        THEN [ok |-> FALSE, hint |-> NoneT,
              error |-> "RuntimeError: has untyped first argument"]
        ELSE [ok |-> TRUE, hint |-> positional[2].hint, error |-> NoneT]

\* "@intercept() def name(sig)" in the class body: the decorator computes
\* InterceptInfo(service=get_first_hint(fn)); an exception leaves the class
\* statement, so that no class exists to instantiate
declare_intercept(name, sig) ==
    /\ module.error = NoneT
    /\ ~module.installed
    /\ name \notin DOMAIN module.methods
    /\ LET r == get_first_hint(sig)
       IN  module' =
             IF r.ok
             THEN [module EXCEPT
                     !.methods = DictSet(@, name,
                                   [type |-> "InterceptInfo",
                                    service |-> r.hint, lifetime |-> NoneT]),
                     !.decorated = [name |-> name, sig |-> sig]]
             ELSE [module EXCEPT !.error = r.error,
                                 !.decorated = [name |-> name, sig |-> sig]]
    /\ UNCHANGED <<bindings, singleton, singleton_lock, scopes, heap, threads,
                   log, calls, exited, closed_before, nbinds, interceptors,
                   routes, rebound, with_exit>>

\* "@factory(lifetime=lifetime) def name(self) -> returns" in the class
\* body: FactoryInfo(service=get_returned_type(fn), lifetime=lifetime)
declare_factory(name, returns, lifetime) ==
    /\ module.error = NoneT
    /\ ~module.installed
    /\ name \notin DOMAIN module.methods
    /\ module' = [module EXCEPT
                    !.methods = DictSet(@, name,
                                  [type |-> "FactoryInfo",
                                   service |-> returns, lifetime |-> lifetime])]
    /\ UNCHANGED <<bindings, singleton, singleton_lock, scopes, heap, threads,
                   log, calls, exited, closed_before, nbinds, interceptors,
                   routes, rebound, with_exit>>

\* the order inspect.getmembers yields the methods in: sorted by name
MemberOrder == <<"init_router", "my_filesystem", "my_interceptor", "my_router">>

\* install_module binding every factory method with the decorator's default
\* lifetime, whatever lifetime the declaration names
RECURSIVE install_module_default_lifetime(_, _, _, _)
install_module_default_lifetime(b, ic, methods, i) ==
    IF i > Len(MemberOrder) THEN [bindings |-> b, interceptors |-> ic]
    ELSE LET meth == MemberOrder[i]
         IN  IF meth \notin DOMAIN methods
             THEN install_module_default_lifetime(b, ic, methods, i + 1)
             ELSE IF methods[meth].type = "FactoryInfo"
             THEN install_module_default_lifetime(
                      DictSet(b, methods[meth].service,
                          Append(IF methods[meth].service \in DOMAIN b
                                 THEN b[methods[meth].service] ELSE << >>,
                                 [service |-> methods[meth].service,
                                  instance |-> None, to |-> NoneT,
                                  factory |-> meth,
                                  lifetime |-> "transient"])),
                      ic, methods, i + 1)
             ELSE install_module_default_lifetime(
                      b,
                      DictSet(ic, methods[meth].service,
                          Append(ChainOf(ic, methods[meth].service), meth)),
                      methods, i + 1)

\* Module.install_module(binder), from member i on: for every method that
\* carries an info, binder.bind(info.service, factory=meth,
\* lifetime=info.lifetime) or binder.intercept(info.service, handler=meth);
\* configure(binder) is the base class's pass
RECURSIVE install_module(_, _, _, _)
install_module(b, ic, methods, i) ==
    IF i > Len(MemberOrder) THEN [bindings |-> b, interceptors |-> ic]
    ELSE LET meth == MemberOrder[i]
         IN  IF meth \notin DOMAIN methods
             THEN install_module(b, ic, methods, i + 1)
             ELSE IF methods[meth].type = "FactoryInfo"
             THEN install_module(
                      DictSet(b, methods[meth].service,
                          Append(IF methods[meth].service \in DOMAIN b
                                 THEN b[methods[meth].service] ELSE << >>,
                                 [service |-> methods[meth].service,
                                  instance |-> None, to |-> NoneT,
                                  factory |-> meth,
                                  lifetime |-> methods[meth].lifetime])),
                      ic, methods, i + 1)
             ELSE install_module(
                      b,
                      DictSet(ic, methods[meth].service,
                          Append(ChainOf(ic, methods[meth].service), meth)),
                      methods, i + 1)

\* kernel.install(MyModule()): module.install_module(self)
install ==
    /\ module.error = NoneT
    /\ ~module.installed
    /\ LET r == install_module(bindings, interceptors, module.methods, 1)
       IN  /\ bindings' = r.bindings
           /\ interceptors' = r.interceptors
    /\ module' = [module EXCEPT !.installed = TRUE]
    /\ UNCHANGED <<singleton, singleton_lock, scopes, heap, threads, log,
                   calls, exited, closed_before, nbinds, routes, rebound, with_exit>>

(* SpecDeclare: one intercept() declaration with any signature, the module *)
(* installed if the class statement completed, and kernel.get(WebRouter).  *)

NextDeclare ==
    \/ \E sig \in Signatures : declare_intercept("my_interceptor", sig)
    \/ install
    \/ Kernel_get("WebRouter")

SpecDeclare == Init /\ [][NextDeclare]_vars

(* SpecModule: the modules of the acceptance tests -- factory methods for  *)
(* IFileSystem and WebRouter, transient or singleton, and interceptors of  *)
(* WebRouter -- installed on a kernel on which IFileSystem may be bound to *)
(* InMemoryFileSystem before or after, and get calls.                      *)

\* the factory methods: name -> declared return type
FactoryMethods ==
    [my_filesystem |-> "IFileSystem", my_router |-> "WebRouter"]

\* def init_router(self, router: WebRouter) -> None
RouterSignature ==
    << [name |-> "self", kind |-> "POSITIONAL_OR_KEYWORD", hint |-> NoneT],
       [name |-> "something", kind |-> "POSITIONAL_OR_KEYWORD",
        hint |-> "WebRouter"] >>

ModuleServices == {"IFileSystem", "WebRouter"}

NextModule ==
    \/ \E n \in DOMAIN FactoryMethods, l \in {"transient", "singleton"} :
           declare_factory(n, FactoryMethods[n], l)
    \/ \E n \in {"init_router", "my_interceptor"} :
           declare_intercept(n, RouterSignature)
    \/ install
    \/ bind("IFileSystem", "InMemoryFileSystem", NoneT, None, "singleton")
    \/ \E s \in ModuleServices : Kernel_get(s)

SpecModule == Init /\ [][NextModule]_vars

(* SpecFactory: factory() declarations whose method has, or lacks, a      *)
(* return annotation, the module installed, and kernel.get calls.          *)

\* what get_returned_type finds for a factory method: the annotated return
\* type, or None when the def has no "->"
ReturnHints ==
    [my_filesystem |-> {NoneT, "IFileSystem"},
     my_router |-> {NoneT, "WebRouter"}]

NextFactory ==
    \/ \E n \in DOMAIN ReturnHints, l \in {"transient", "singleton"} :
           \E returns \in ReturnHints[n] : declare_factory(n, returns, l)
    \/ install
    \/ \E s \in ModuleServices : Kernel_get(s)

SpecFactory == Init /\ [][NextFactory]_vars

----------------------------------------------------------------------------
(* SpecExit: with-blocks of nested scopes on a configured kernel, each     *)
(* left normally or by an exception raised in its body (a failed get, or   *)
(* the caller's own code).                                                 *)

\* exc_type as __exit__ receives it: None, or the class of the exception
BodyExceptions == {NoneT, "TypeError", "ValueError"}

InitExit ==
    /\ \E fs \in {<<b>> : b \in {x \in FsBindings : x.instance = None}},
          ifs \in {<< >>} \cup {<<b>> : b \in {x \in IfsBindings :
                                                  x.lifetime = "scoped"}} :
           bindings = Configured(fs \o ifs)
    /\ singleton = EmptyDict
    /\ singleton_lock = [owner |-> 0, count |-> 0]
    /\ scopes = << >>
    /\ heap = << >>
    /\ threads = << >>
    /\ log = << >>
    /\ calls = {}
    /\ exited = << >>
    /\ closed_before = << >>
    /\ nbinds = 0
    /\ interceptors = EmptyDict
    /\ routes = EmptyDict
    /\ module = NoModule
    /\ rebound = NoRebind
    /\ with_exit = << >>

NextExit ==
    \/ nested_scope
    \/ \E sc \in 1..MaxScopes, exc_type \in BodyExceptions :
           Scope___exit__(sc, exc_type)
    \/ \E s \in Services, sc \in 1..MaxScopes : Scope_get(sc, s)

SpecExit == InitExit /\ [][NextExit]_vars

----------------------------------------------------------------------------
(* SpecPrecedence: bind calls on IFileSystem that give any combination of  *)
(* instance=, to= and factory=, interleaved with kernel.get(IFileSystem).  *)

PrecedenceBindings ==
    {[service |-> "IFileSystem", instance |-> i, to |-> to, factory |-> fa,
      lifetime |-> l] :
        i \in {None, Supplied, Falsy}, to \in {NoneT, "InMemoryFileSystem"},
        fa \in {NoneT, "s3_factory"}, l \in {"transient", "singleton"}}

NextPrecedence ==
    \/ \E b \in PrecedenceBindings :
           bind(b.service, b.to, b.factory, b.instance, b.lifetime)
    \/ Kernel_get("IFileSystem")

SpecPrecedence == Init /\ [][NextPrecedence]_vars

----------------------------------------------------------------------------
(* SpecChain: the binding chain IReadOnlyDb -> IDb -> Db of                *)
(* test_long_binding_chain, every hop with any lifetime, resolved from any *)
(* of its services through the kernel and through an open Scope.           *)

ChainServices == <<"IReadOnlyDb", "IDb", "Db">>

\* bind(IReadOnlyDb, to=IDb, lifetime=l1); bind(IDb, to=Db, lifetime=l2);
\* and Db bound to itself with a lifetime, or left unbound
ChainBindings ==
    {<< [service |-> "IReadOnlyDb", instance |-> None, to |-> "IDb",
         factory |-> NoneT, lifetime |-> l1],
        [service |-> "IDb", instance |-> None, to |-> "Db",
         factory |-> NoneT, lifetime |-> l2] >> \o db :
        l1 \in Lifetime, l2 \in Lifetime,
        db \in {<< >>} \cup {<< [service |-> "Db", instance |-> None,
                                 to |-> NoneT, factory |-> NoneT,
                                 lifetime |-> l3] >> : l3 \in Lifetime}}

InitChain ==
    /\ \E bs \in ChainBindings : bindings = Configured(bs)
    /\ singleton = EmptyDict
    /\ singleton_lock = [owner |-> 0, count |-> 0]
    /\ scopes = << EmptyDict >>
    /\ heap = << >>
    /\ threads = << >>
    /\ log = << >>
    /\ calls = {}
    /\ exited = << FALSE >>
    /\ closed_before = << {} >>
    /\ nbinds = 0
    /\ interceptors = EmptyDict
    /\ routes = EmptyDict
    /\ module = NoModule
    /\ rebound = NoRebind
    /\ with_exit = << StillOpen >>

NextChain ==
    \/ \E i \in DOMAIN ChainServices : Kernel_get(ChainServices[i])
    \/ \E i \in DOMAIN ChainServices : Scope_get(1, ChainServices[i])

SpecChain == InitChain /\ [][NextChain]_vars

----------------------------------------------------------------------------
(* SpecParam: MyHandler(fs: IFileSystem) on a kernel where IFileSystem is  *)
(* bound to InMemoryFileSystem, each with any lifetime; MyHandler is       *)
(* transient (bound so, or not bound).  Resolved through nested scopes and *)
(* through the kernel.                                                     *)

ParamBindings ==
    {h \o << ifs >> \o fs :
        h \in {<< >>, << Binding("MyHandler") >>},
        ifs \in {b \in IfsBindings : b.to = "InMemoryFileSystem"},
        fs \in {<< >>} \cup {<< b >> : b \in {x \in FsBindings :
                                                x.instance = None}}}

ParamServices == {"MyHandler", "IFileSystem"}

InitParam ==
    /\ \E bs \in ParamBindings : bindings = Configured(bs)
    /\ singleton = EmptyDict
    /\ singleton_lock = [owner |-> 0, count |-> 0]
    /\ scopes = << >>
    /\ heap = << >>
    /\ threads = << >>
    /\ log = << >>
    /\ calls = {}
    /\ exited = << >>
    /\ closed_before = << >>
    /\ nbinds = 0
    /\ interceptors = EmptyDict
    /\ routes = EmptyDict
    /\ module = NoModule
    /\ rebound = NoRebind
    /\ with_exit = << >>

NextParam ==
    \/ nested_scope
    \/ \E s \in ParamServices, sc \in 1..MaxScopes : Scope_get(sc, s)
    \/ \E s \in ParamServices : Kernel_get(s)

SpecParam == InitParam /\ [][NextParam]_vars

----------------------------------------------------------------------------
(* SpecCacheHit: IWebRouter bound to WebRouter, each with any lifetime,    *)
(* interceptors registered on both, and get calls through the kernel and   *)
(* through an open Scope that build, cache and hit the caches.             *)

CachedRouterBindings ==
    {<< [service |-> "IWebRouter", instance |-> None, to |-> "WebRouter",
         factory |-> NoneT, lifetime |-> l1] >> \o w :
        l1 \in Lifetime,
        w \in {<< >>} \cup {<< [service |-> "WebRouter", instance |-> None,
                                to |-> NoneT, factory |-> NoneT,
                                lifetime |-> l2] >> : l2 \in Lifetime}}

InitCacheHit ==
    /\ \E bs \in CachedRouterBindings : bindings = Configured(bs)
    /\ singleton = EmptyDict
    /\ singleton_lock = [owner |-> 0, count |-> 0]
    /\ scopes = << EmptyDict >>
    /\ heap = << >>
    /\ threads = << >>
    /\ log = << >>
    /\ calls = {}
    /\ exited = << FALSE >>
    /\ closed_before = << {} >>
    /\ nbinds = 0
    /\ interceptors = EmptyDict
    /\ routes = EmptyDict
    /\ module = NoModule
    /\ rebound = NoRebind
    /\ with_exit = << StillOpen >>

NextCacheHit ==
    \/ \E s \in RouterServices, h \in Handlers : intercept(s, h)
    \/ \E s \in RouterServices : Kernel_get(s)
    \/ \E s \in RouterServices : Scope_get(1, s)

SpecCacheHit == InitCacheHit /\ [][NextCacheHit]_vars

----------------------------------------------------------------------------
(* SpecLock: NumThreads threads calling kernel.get on a kernel that the    *)
(* main thread has configured and, possibly, already used for one get, so  *)
(* that a singleton may be cached when the threads start.                  *)

LockBindings ==
    {<< fs, ifs >> \o h :
        fs \in {b \in FsBindings : b.instance = None /\ b.lifetime # "scoped"},
        ifs \in {b \in IfsBindings : b.to = "InMemoryFileSystem"
                                     /\ b.lifetime # "scoped"},
        h \in {<< >>} \cup {<< b >> : b \in HandlerBindings}}

\* the kernel right after Kernel() and the bind calls bs
Configured_kernel(bs) ==
    [bindings |-> Configured(bs), singleton |-> EmptyDict,
     lock |-> [owner |-> 0, count |-> 0], scopes |-> << >>, heap |-> << >>,
     calls |-> {}, interceptors |-> EmptyDict, routes |-> EmptyDict]

InitLock ==
    /\ \E bs \in LockBindings, first \in {NoneT, "InMemoryFileSystem",
                                          "IFileSystem"} :
           LET k == IF first = NoneT THEN Configured_kernel(bs)
                    ELSE Kernel__get(Configured_kernel(bs), 1, first, None).k
           IN  /\ bindings = k.bindings
               /\ singleton = k.singleton
               /\ singleton_lock = k.lock
               /\ heap = k.heap
               /\ calls = k.calls
    /\ scopes = << >>
    /\ threads = [t \in ThreadIds |-> IdleThread]
    /\ log = << >>
    /\ exited = << >>
    /\ closed_before = << >>
    /\ nbinds = 0
    /\ interceptors = EmptyDict
    /\ routes = EmptyDict
    /\ module = NoModule
    /\ rebound = NoRebind
    /\ with_exit = << >>

SpecLock == InitLock /\ [][NextThreads]_vars

----------------------------------------------------------------------------
(* SpecAppend: one caller of one kernel; bind calls on IFileSystem (to     *)
(* S3FileSystem, to LocalFileSystem, or built by a factory; singleton or   *)
(* transient) interleaved with kernel.get calls, so that a binding is      *)
(* appended after an instance has been cached.                             *)

AppendBindings ==
    {[service |-> "IFileSystem", instance |-> None, to |-> to,
      factory |-> NoneT, lifetime |-> l] :
        to \in {"S3FileSystem", "LocalFileSystem"},
        l \in {"singleton", "transient"}}
    \cup {[service |-> "IFileSystem", instance |-> None, to |-> NoneT,
            factory |-> "s3_factory", lifetime |-> l] :
        l \in {"singleton", "transient"}}

NextAppend ==
    \/ \E b \in AppendBindings :
           bind(b.service, b.to, b.factory, b.instance, b.lifetime)
    \/ \E s \in {"IFileSystem", "LocalFileSystem"} : Kernel_get(s)

SpecAppend == Init /\ [][NextAppend]_vars

----------------------------------------------------------------------------
(* SpecClose: a singleton MyHandler over IFileSystem (scoped or singleton, *)
(* redirected to InMemoryFileSystem of any lifetime), resolved through     *)
(* nested scopes that are open together and closed in any order.           *)

CloseBindings ==
    {<<[service |-> "MyHandler", instance |-> None, to |-> NoneT,
        factory |-> NoneT, lifetime |-> "singleton"],
       [service |-> "IFileSystem", instance |-> None,
        to |-> "InMemoryFileSystem", factory |-> NoneT, lifetime |-> l1],
       [service |-> "InMemoryFileSystem", instance |-> None, to |-> NoneT,
        factory |-> NoneT, lifetime |-> l2]>> :
     l1 \in {"scoped", "singleton"}, l2 \in Lifetime}

InitClose ==
    /\ \E bs \in CloseBindings : bindings = Configured(bs)
    /\ singleton = EmptyDict
    /\ singleton_lock = [owner |-> 0, count |-> 0]
    /\ scopes = << >>
    /\ heap = << >>
    /\ threads = << >>
    /\ log = << >>
    /\ calls = {}
    /\ exited = << >>
    /\ closed_before = << >>
    /\ nbinds = 0
    /\ interceptors = EmptyDict
    /\ routes = EmptyDict
    /\ module = NoModule
    /\ rebound = NoRebind
    /\ with_exit = << >>

NextClose ==
    \/ nested_scope
    \/ \E sc \in 1..MaxScopes : Scope___exit__(sc, NoneT)
    \/ \E s \in {"MyHandler", "IFileSystem"}, sc \in 1..MaxScopes :
           Scope_get(sc, s)

SpecClose == InitClose /\ [][NextClose]_vars

----------------------------------------------------------------------------
(* SpecPartial: the handler of new_type_test with two dependencies, local: *)
(* IFileSystem and networked: NetworkedFileSystem, each bound with any     *)
(* lifetime (NetworkedFileSystem possibly not bound), the handler itself   *)
(* with any lifetime; resolved through the kernel and an open Scope.       *)

PartialBindings ==
    {<< [service |-> "IFileSystem", instance |-> None,
         to |-> "InMemoryFileSystem", factory |-> NoneT, lifetime |-> l1] >>
     \o n \o h :
        l1 \in Lifetime,
        n \in {<< >>} \cup {<< [service |-> "NetworkedFileSystem",
                                instance |-> None, to |-> "S3FileSystem",
                                factory |-> NoneT, lifetime |-> l2] >> :
                               l2 \in Lifetime},
        h \in {<< >>} \cup {<< [service |-> "NewTypeHandler",
                                instance |-> None, to |-> NoneT,
                                factory |-> NoneT, lifetime |-> l3] >> :
                               l3 \in {"singleton", "scoped"}}}

PartialServices == {"NewTypeHandler", "IFileSystem", "NetworkedFileSystem"}

InitPartial ==
    /\ \E bs \in PartialBindings : bindings = Configured(bs)
    /\ singleton = EmptyDict
    /\ singleton_lock = [owner |-> 0, count |-> 0]
    /\ scopes = << EmptyDict >>
    /\ heap = << >>
    /\ threads = << >>
    /\ log = << >>
    /\ calls = {}
    /\ exited = << FALSE >>
    /\ closed_before = << {} >>
    /\ nbinds = 0
    /\ interceptors = EmptyDict
    /\ routes = EmptyDict
    /\ module = NoModule
    /\ rebound = NoRebind
    /\ with_exit = << StillOpen >>

NextPartial ==
    \/ \E s \in PartialServices : Kernel_get(s)
    \/ \E s \in PartialServices : Scope_get(1, s)

SpecPartial == InitPartial /\ [][NextPartial]_vars

----------------------------------------------------------------------------
(* Properties *)

\* a binding whose lifetime decides the result: no pre-supplied instance
Plain(b) == ~Truthy(b.instance)

\* the redirect chain from service s, under the latest bindings cfg, reaches
\* a pre-supplied instance or a singleton-lifetime binding
RECURSIVE ReachesShared(_, _)
ReachesShared(cfg, s) ==
    \/ Truthy(cfg[s].instance)
    \/ cfg[s].lifetime = "singleton"
    \/ cfg[s].to # NoneT /\ ReachesShared(cfg, cfg[s].to)

\* ... reaches a pre-supplied instance or any caching (singleton or scoped)
\* binding
RECURSIVE ReachesCached(_, _)
ReachesCached(cfg, s) ==
    \/ Truthy(cfg[s].instance)
    \/ cfg[s].lifetime # "transient"
    \/ cfg[s].to # NoneT /\ ReachesCached(cfg, cfg[s].to)

\* the number of objects of class c built so far
Built(c) == Cardinality({i \in DOMAIN heap : heap[i].cls = c})

---- 
\* C1 (SpecThreads): when the threads that call get all call get(S) and the
\* latest binding of S has singleton lifetime, S is built at most once, every
\* call that has ended ended the same way, and once all have returned they
\* all hold one instance, built exactly once.
C1_SingletonBuiltOnce ==
    \A s \in Services :
        (/\ LookupBinding(bindings, s).lifetime = "singleton"
         /\ \A t \in ThreadIds : threads[t].interface \in {s, NoneT})
        => /\ Built(s) <= 1
           /\ \A t1, t2 \in ThreadIds :
                  threads[t1].status = "done" /\ threads[t2].status = "done"
                  => /\ threads[t1].ok = threads[t2].ok
                     /\ threads[t1].value = threads[t2].value
                     /\ threads[t1].error = threads[t2].error
           /\ \A t \in ThreadIds :
                  threads[t].status = "done" /\ threads[t].ok
                  => /\ threads[t].value \in DOMAIN heap
                     /\ Built(heap[threads[t].value].cls) = 1

\* C1 witness: every thread found the singleton cache empty at the unlocked
\* check of InMemoryFileSystem, and all have returned the one object built
C1_Witness ==
    /\ LookupBinding(bindings, "InMemoryFileSystem").lifetime = "singleton"
    /\ \A t \in ThreadIds :
           /\ threads[t].status = "done"
           /\ threads[t].interface = "InMemoryFileSystem"
           /\ threads[t].ok
           /\ threads[t].value = 1
           /\ "InMemoryFileSystem" \in threads[t].missed
    /\ Len(heap) = 1

----
\* C2 as stated: any two get(S) that both found a singleton-lifetime binding
\* of S returned the identical instance.
C2_AsStated ==
    \A i, j \in DOMAIN log :
        (/\ log[i].interface = log[j].interface
         /\ log[i].binding.lifetime = "singleton"
         /\ log[j].binding.lifetime = "singleton"
         /\ log[i].ok /\ log[j].ok)
        => log[i].value = log[j].value

\* C2 (Spec), amended: for a service S whose latest binding has singleton
\* lifetime and no pre-supplied instance, every get(S) that returns returns
\* the identical instance; a get(B) through a transient redirect B -> S
\* returns that instance too; and an object built with a parameter typed S
\* is given that instance.
C2_SingletonIdentity ==
    \A i, j \in DOMAIN log :
        (/\ log[i].ok /\ log[j].ok
         /\ log[i].binding.lifetime = "singleton" /\ Plain(log[i].binding))
        => LET S == log[i].interface
               bj == log[j].binding
               target == IF bj.factory # NoneT THEN bj.factory ELSE bj.service
               params == Inspection_inspect(target)
           IN  /\ (/\ log[j].interface = S
                   /\ bj.lifetime = "singleton" /\ Plain(bj))
                  => log[j].value = log[i].value
               /\ (/\ bj.to = S /\ bj.lifetime = "transient" /\ Plain(bj)
                   /\ log[j].cfg[S].lifetime = "singleton"
                   /\ Plain(log[j].cfg[S]))
                  => log[j].value = log[i].value
               /\ (/\ bj.to = NoneT /\ bj.lifetime = "transient" /\ Plain(bj)
                   /\ log[j].cfg[S].lifetime = "singleton"
                   /\ Plain(log[j].cfg[S]))
                  => \A p \in DOMAIN params :
                         params[p].hint = S
                         => heap[log[j].value].arguments[params[p].name]
                                = log[i].value

\* C2 witness: InMemoryFileSystem is a singleton, IFileSystem redirects to
\* it, and get(InMemoryFileSystem), get(IFileSystem) returned one object
C2_Witness ==
    /\ Len(log) = 2
    /\ log[1].interface = "InMemoryFileSystem" /\ log[1].ok
    /\ log[1].binding.lifetime = "singleton" /\ Plain(log[1].binding)
    /\ log[2].interface = "IFileSystem" /\ log[2].ok
    /\ log[2].binding.to = "InMemoryFileSystem"
    /\ log[2].binding.lifetime = "transient"
    /\ log[2].cfg["InMemoryFileSystem"] = log[1].binding
    /\ log[2].value = log[1].value
    /\ log[1].value \in DOMAIN heap

----
\* C3 as stated: two consecutive get calls for a service whose latest binding
\* has transient lifetime returned distinct instances.
C3_AsStated ==
    \A i, j \in DOMAIN log :
        (/\ j = i + 1
         /\ log[i].interface = log[j].interface
         /\ log[i].binding.lifetime = "transient"
         /\ log[j].binding.lifetime = "transient"
         /\ log[i].ok /\ log[j].ok)
        => log[i].value # log[j].value

\* C3 (SpecScoped), amended: two get calls for a service whose latest binding
\* has transient lifetime return distinct instances, unless that binding
\* carries a pre-supplied instance or redirects (to) to a service that
\* resolves to a cached (singleton or scoped) or pre-supplied instance.
C3_TransientDistinct ==
    \A i, j \in DOMAIN log :
        (/\ i # j
         /\ log[i].interface = log[j].interface
         /\ log[i].binding.lifetime = "transient"
         /\ log[j].binding.lifetime = "transient"
         /\ Plain(log[i].binding) /\ Plain(log[j].binding)
         /\ log[i].binding.to # NoneT => ~ReachesCached(log[i].cfg, log[i].binding.to)
         /\ log[j].binding.to # NoneT => ~ReachesCached(log[j].cfg, log[j].binding.to)
         /\ log[i].ok /\ log[j].ok)
        => log[i].value # log[j].value

\* C3 witness: two consecutive kernel.get(InMemoryFileSystem) under an
\* explicit transient binding returned two objects
C3_Witness ==
    /\ Len(log) = 2
    /\ "InMemoryFileSystem" \in DOMAIN bindings
    /\ \A i \in {1, 2} :
           /\ log[i].interface = "InMemoryFileSystem"
           /\ log[i].scope = None
           /\ log[i].binding.lifetime = "transient"
           /\ Plain(log[i].binding)
           /\ log[i].ok
    /\ log[1].value # log[2].value
    /\ bindings["InMemoryFileSystem"] # << >>

----
\* the log entries of scope.get calls that found a scoped-lifetime binding
ScopedCalls ==
    {i \in DOMAIN log : log[i].scope # None /\ log[i].binding.lifetime = "scoped"}

----
\* the log entries of scope.get calls made in a scope that was opened after
\* the scope of entry i had been closed
AfterClose(i) ==
    {j \in DOMAIN log : /\ log[i].scope # None /\ log[j].scope # None
                        /\ log[i].scope \in closed_before[log[j].scope]}

\* C5 as stated: a scoped service resolved in a scope opened after another
\* scope closed is never an instance that the closed scope had cached.
C5_AsStated ==
    \A i \in DOMAIN log : \A j \in AfterClose(i) \cap ScopedCalls :
        log[j].ok => log[j].value \notin log[i].cached

\* C5 (SpecScoped), amended: every newly opened scope starts with an empty
\* cache, so a scoped service resolved in a scope opened after another scope
\* closed is built or resolved anew; it is an instance the closed scope had
\* cached only if its binding carries a pre-supplied instance or redirects
\* (to) to a service that resolves to a singleton or pre-supplied instance.
C5_NewScopeStartsEmpty ==
    /\ \A sc \in DOMAIN scopes :
           (\A i \in DOMAIN log : log[i].scope # sc) => scopes[sc] = EmptyDict
    /\ \A i \in DOMAIN log : \A j \in AfterClose(i) \cap ScopedCalls :
           (/\ log[j].ok
            /\ Plain(log[j].binding)
            /\ log[j].binding.to # NoneT
                   => ~ReachesShared(log[j].cfg, log[j].binding.to))
           => log[j].value \notin log[i].cached

\* C5 witness: scope 1 resolved scoped InMemoryFileSystem and closed; scope 2
\* was opened afterwards and resolved it to another object
C5_Witness ==
    /\ Len(log) = 2
    /\ 1 \in ScopedCalls /\ 2 \in ScopedCalls
    /\ log[1].interface = "InMemoryFileSystem" /\ log[1].scope = 1
    /\ log[2].interface = "InMemoryFileSystem" /\ log[2].scope = 2
    /\ Plain(log[1].binding)
    /\ 1 \in closed_before[2]
    /\ log[1].ok /\ log[2].ok
    /\ log[1].cached = {log[1].value}
    /\ log[2].value \notin log[1].cached
    /\ scopes[1] = EmptyDict

----
\* the log entries of kernel.get calls that found a scoped-lifetime binding
ScopedOnKernel ==
    {i \in DOMAIN log : log[i].scope = None /\ log[i].binding.lifetime = "scoped"}

\* C6 as stated: kernel.get of a service whose latest binding has scoped
\* lifetime raises BindingIsScoped and returns no instance.
C6_AsStated ==
    \A i \in ScopedOnKernel : ~log[i].ok /\ log[i].error = "BindingIsScoped"

\* C6 (Spec), amended: kernel.get of a service whose latest binding has
\* scoped lifetime and no pre-supplied instance raises BindingIsScoped on
\* every call, whatever was resolved or cached before.
C6_ScopedNeedsScope ==
    \A i \in ScopedOnKernel :
        Plain(log[i].binding)
        => ~log[i].ok /\ log[i].error = "BindingIsScoped" /\ log[i].value = None

\* C6 witness: InMemoryFileSystem was resolved and cached as a singleton,
\* then bound scoped, and the next kernel.get raised
C6_Witness ==
    /\ Len(log) = 2
    /\ log[1].interface = "InMemoryFileSystem" /\ log[1].ok
    /\ "InMemoryFileSystem" \in DOMAIN singleton
    /\ log[2].interface = "InMemoryFileSystem"
    /\ 2 \in ScopedOnKernel /\ Plain(log[2].binding)
    /\ ~log[2].ok /\ log[2].error = "BindingIsScoped"

----
\* bind(A) with transient lifetime and bind(B, to=A, lifetime=singleton),
\* with A = InMemoryFileSystem and B = IFileSystem, are the latest bindings
EarlySingleton(cfg) ==
    /\ cfg["InMemoryFileSystem"] = Binding("InMemoryFileSystem")
    /\ cfg["IFileSystem"] = [Binding("IFileSystem") EXCEPT
                                !.to = "InMemoryFileSystem",
                                !.lifetime = "singleton"]

\* C7 (Spec): given bind(A) transient and bind(B, to=A, lifetime=singleton),
\* every get(A) and get(B) returns; any two get(B) return the identical
\* instance; a get(B) and a get(A) never return the same instance; and two
\* get(A) return distinct instances (the singleton entry is keyed by B).
C7_EarlySingleton ==
    /\ \A i \in DOMAIN log :
           (/\ EarlySingleton(log[i].cfg)
            /\ log[i].interface \in {"InMemoryFileSystem", "IFileSystem"})
           => log[i].ok
    /\ \A i, j \in DOMAIN log :
           (i # j /\ EarlySingleton(log[i].cfg) /\ EarlySingleton(log[j].cfg))
           => /\ (/\ log[i].interface = "IFileSystem"
                  /\ log[j].interface = "IFileSystem")
                 => log[i].value = log[j].value
              /\ (/\ log[i].interface = "IFileSystem"
                  /\ log[j].interface = "InMemoryFileSystem")
                 => log[i].value # log[j].value
              /\ (/\ log[i].interface = "InMemoryFileSystem"
                  /\ log[j].interface = "InMemoryFileSystem")
                 => log[i].value # log[j].value

\* C7 witness: after bind(A) and bind(B, to=A, singleton), get(B) built and
\* cached an object under B and get(A) then built another
C7_Witness ==
    /\ Len(log) = 2
    /\ "InMemoryFileSystem" \in DOMAIN bindings
    /\ Len(bindings["InMemoryFileSystem"]) = 1
    /\ EarlySingleton(log[1].cfg) /\ EarlySingleton(log[2].cfg)
    /\ log[1].interface = "IFileSystem" /\ log[1].ok
    /\ log[2].interface = "InMemoryFileSystem" /\ log[2].ok
    /\ log[1].value # log[2].value
    /\ DOMAIN singleton = {"IFileSystem"}
    /\ singleton["IFileSystem"] = log[1].value

----
\* bind(A, lifetime=scoped) and bind(B, to=A) with no lifetime on B
ScopedTarget(cfg) ==
    /\ cfg["InMemoryFileSystem"] = [Binding("InMemoryFileSystem") EXCEPT
                                       !.lifetime = "scoped"]
    /\ cfg["IFileSystem"] = [Binding("IFileSystem") EXCEPT
                                !.to = "InMemoryFileSystem"]

\* C8 (SpecScoped): given bind(A, lifetime=scoped) and bind(B, to=A), every
\* scope.get(B) on an open scope returns (it does not raise), and within one
\* scope scope.get(A) and scope.get(B) return the identical instance, the
\* one that scope caches under A.
C8_RedirectToScoped ==
    /\ \A i \in DOMAIN log :
           (/\ ScopedTarget(log[i].cfg) /\ log[i].scope # None
            /\ log[i].interface \in {"InMemoryFileSystem", "IFileSystem"})
           => /\ log[i].ok
              /\ log[i].cached = {log[i].value}
    /\ \A i, j \in DOMAIN log :
           (/\ ScopedTarget(log[i].cfg) /\ ScopedTarget(log[j].cfg)
            /\ log[i].scope # None /\ log[i].scope = log[j].scope
            /\ log[i].interface = "InMemoryFileSystem"
            /\ log[j].interface = "IFileSystem")
           => log[i].value = log[j].value

\* C8 witness: in scope 1, scope.get(B) came first and built the object that
\* scope.get(A) then returned from the scope's cache
C8_Witness ==
    /\ Len(log) = 2
    /\ ScopedTarget(log[1].cfg) /\ ScopedTarget(log[2].cfg)
    /\ log[1].scope = 1 /\ log[2].scope = 1
    /\ log[1].interface = "IFileSystem" /\ log[1].ok
    /\ log[2].interface = "InMemoryFileSystem" /\ log[2].ok
    /\ log[1].value = log[2].value
    /\ Len(heap) = 1
    /\ DOMAIN scopes[1] = {"InMemoryFileSystem"}

----
\* C9 as stated: the resolution of a redirect target runs against the
\* singleton scope (with no call scope), whatever scope the caller used.
C9_AsStated ==
    \A c \in calls : c.via = "to" => c.scope = None

\* C9 (SpecScoped), amended: the resolution of a redirect target runs in the
\* scope the redirecting resolution runs in: the caller's call scope under
\* scope.get, no call scope under kernel.get.
C9_RedirectKeepsScope ==
    \A c \in calls : c.via = "to" => c.scope = c.caller

\* C9 witness: scope.get(IFileSystem) on scope 1 followed the redirect with
\* scope 1, and the scoped target was cached there
C9_Witness ==
    /\ [interface |-> "InMemoryFileSystem", scope |-> 1, via |-> "to",
        caller |-> 1] \in calls
    /\ Len(log) = 1
    /\ log[1].interface = "IFileSystem" /\ log[1].scope = 1 /\ log[1].ok
    /\ log[1].cfg["InMemoryFileSystem"].lifetime = "scoped"
    /\ Plain(log[1].cfg["InMemoryFileSystem"])
    /\ "InMemoryFileSystem" \in DOMAIN scopes[1]
    /\ scopes[1]["InMemoryFileSystem"] = log[1].value

----
\* bind(A) with transient lifetime and bind(B, to=A, lifetime=scoped)
EarlyScoped(cfg) ==
    /\ cfg["InMemoryFileSystem"] = Binding("InMemoryFileSystem")
    /\ cfg["IFileSystem"] = [Binding("IFileSystem") EXCEPT
                                !.to = "InMemoryFileSystem",
                                !.lifetime = "scoped"]

\* C10 (SpecScoped): given bind(A) transient and bind(B, to=A,
\* lifetime=scoped), within one open scope every scope.get(B) returns the
\* same instance, and a scope.get(A) returns an instance distinct from the
\* one scope.get(B) returns.
C10_EarlyScoped ==
    /\ \A i \in DOMAIN log :
           (/\ EarlyScoped(log[i].cfg) /\ log[i].scope # None
            /\ log[i].interface \in {"InMemoryFileSystem", "IFileSystem"})
           => log[i].ok
    /\ \A i, j \in DOMAIN log :
           (/\ i # j
            /\ EarlyScoped(log[i].cfg) /\ EarlyScoped(log[j].cfg)
            /\ log[i].scope # None /\ log[i].scope = log[j].scope
            /\ log[i].interface = "IFileSystem")
           => /\ log[j].interface = "IFileSystem"
                 => log[i].value = log[j].value
              /\ log[j].interface = "InMemoryFileSystem"
                 => log[i].value # log[j].value

\* C10 witness: in scope 1, scope.get(B) built and cached an object under B
\* and scope.get(A) then built another
C10_Witness ==
    /\ Len(log) = 2
    /\ EarlyScoped(log[1].cfg) /\ EarlyScoped(log[2].cfg)
    /\ log[1].scope = 1 /\ log[2].scope = 1
    /\ log[1].interface = "IFileSystem" /\ log[1].ok
    /\ log[2].interface = "InMemoryFileSystem" /\ log[2].ok
    /\ log[1].value # log[2].value
    /\ DOMAIN scopes[1] = {"IFileSystem"}
    /\ scopes[1]["IFileSystem"] = log[1].value

----
\* the log entries of get calls that built a handler with the parameter
\* bus: ISimpleEventBus = <default>
BusHandlerCalls ==
    {i \in DOMAIN log : /\ log[i].interface \in {"BusHandler", "DefaultBusHandler"}
                        /\ log[i].ok /\ log[i].value \in DOMAIN heap}

\* C11 as stated (SpecOptional): a handler built while ISimpleEventBus has
\* no binding gets the default of its parameter bus; a handler built once
\* ISimpleEventBus is bound gets the resolved event bus injected.
C11_AsStated ==
    \A i \in BusHandlerCalls :
        LET obj == heap[log[i].value]
            bus == Constructors(log[i].interface)[1]
        IN  IF "ISimpleEventBus" \in log[i].bound
            THEN /\ obj.attrs["bus"] \in DOMAIN heap
                 /\ heap[obj.attrs["bus"]].cls = "NoopEventBus"
            ELSE obj.attrs["bus"] = bus.default

----
\* the class of the instances a binding of the registry services yields
TargetClass(b) == IF b.to # NoneT THEN b.to ELSE b.service

\* the newest log entry of a step that completed a get call
NewEntry == log'[Len(log')]

\* C12 (SpecRegistry): a rebind(X, ...) call leaves X with exactly one
\* binding, the new one, and leaves the bindings of every other service as
\* they were; a get(X) that follows it (bind(X, to=Impl1), rebind(X,
\* to=Impl2), get(X)) returns an instance of the new binding's class.
C12_RebindReplaces ==
    [][/\ rebound' # rebound
          => LET X == rebound'.service
             IN  /\ rebound'.before = bindings
                 /\ bindings'[X] = << rebound'.binding >>
                 /\ DOMAIN bindings' = DOMAIN bindings \cup {X}
                 /\ \A Y \in DOMAIN bindings \ {X} : bindings'[Y] = bindings[Y]
       /\ (/\ Len(log') = Len(log) + 1
           /\ rebound.service = NewEntry.interface
           /\ rebound.service \in Bound(rebound.before)
           /\ bindings[rebound.service] = << rebound.binding >>)
          => /\ NewEntry.ok
             /\ NewEntry.value \in DOMAIN heap'
             /\ heap'[NewEntry.value].cls = TargetClass(rebound.binding)
      ]_vars

\* C12 witness: bind(IFileSystem, to=S3FileSystem), rebind(IFileSystem,
\* to=LocalFileSystem), and get(IFileSystem) returned a LocalFileSystem
C12_Witness ==
    /\ rebound.service = "IFileSystem"
    /\ "IFileSystem" \in DOMAIN rebound.before
    /\ Len(rebound.before["IFileSystem"]) = 1
    /\ rebound.before["IFileSystem"][1].to = "S3FileSystem"
    /\ rebound.binding.to = "LocalFileSystem"
    /\ bindings["IFileSystem"] = << rebound.binding >>
    /\ Len(log) = 1
    /\ log[1].interface = "IFileSystem" /\ log[1].ok
    /\ log[1].rebound = rebound
    /\ heap[log[1].value].cls = "LocalFileSystem"

----
\* C13 (SpecRegistry): a rebind(X, ...) call on a kernel with no binding of
\* X changes the registry exactly as bind(X, ...) would, and a get(X) that
\* follows resolves through the new binding.
C13_RebindWithoutPrior ==
    [][/\ (rebound' # rebound /\ rebound'.service \notin Bound(bindings))
          => LET X == rebound'.service
                 b == rebound'.binding
             IN  bindings' = DictSet(bindings, X,
                                 Append(IF X \in DOMAIN bindings
                                        THEN bindings[X] ELSE << >>, b))
       /\ (/\ Len(log') = Len(log) + 1
           /\ rebound.service = NewEntry.interface
           /\ rebound.service \notin Bound(rebound.before)
           /\ bindings[rebound.service] = << rebound.binding >>)
          => /\ NewEntry.binding = rebound.binding
             /\ NewEntry.ok
             /\ NewEntry.value \in DOMAIN heap'
             /\ heap'[NewEntry.value].cls = TargetClass(rebound.binding)
      ]_vars

\* C13 witness: rebind(IFileSystem, to=S3FileSystem) was the first call on
\* the kernel, and get(IFileSystem) returned an S3FileSystem
C13_Witness ==
    /\ rebound.service = "IFileSystem"
    /\ rebound.before = EmptyDict
    /\ rebound.binding.to = "S3FileSystem"
    /\ bindings["IFileSystem"] = << rebound.binding >>
    /\ Len(log) = 1
    /\ log[1].interface = "IFileSystem" /\ log[1].ok
    /\ heap[log[1].value].cls = "S3FileSystem"

----
\* C14 (SpecOptional): get(S) for a service S with no registered binding
\* resolves S through the default Binding(S): the lookup raises nothing, the
\* outcome is the one an explicit transient bind(S) would give, an
\* instantiable S with no failing dependency is built anew on every call,
\* and the only error is the TypeError of constructing an abstract class.
C14_DefaultBinding ==
    /\ \A i \in DOMAIN log :
           log[i].interface \notin log[i].bound
           => LET S == log[i].interface
              IN  /\ log[i].binding = Binding(S)
                  /\ log[i].ok
                     => /\ log[i].value \in DOMAIN heap
                        /\ log[i].value > log[i].built
                        /\ heap[log[i].value].cls = S
                  /\ ~log[i].ok => log[i].error = "TypeError"
                  /\ (S \notin AbstractClasses /\ Constructors(S) = << >>)
                     => log[i].ok
                  /\ S \in AbstractClasses => ~log[i].ok
    /\ \A S \in BusServices \ Bound(bindings) :
           LET r1 == Kernel__get(K, 1, S, None)
               r2 == Kernel__get([K EXCEPT !.bindings =
                                     DictSet(@, S, << Binding(S) >>)],
                                 1, S, None)
           IN  /\ r1.th.ok = r2.th.ok
               /\ r1.th.error = r2.th.error
               /\ r1.th.value = r2.th.value
               /\ r1.k.heap = r2.k.heap
               /\ r1.k.singleton = r2.k.singleton

\* C14 witness: two get(NoopEventBus) calls on a kernel with no binding of
\* NoopEventBus built two objects
C14_Witness ==
    /\ Len(log) = 2
    /\ \A i \in {1, 2} : /\ log[i].interface = "NoopEventBus"
                         /\ "NoopEventBus" \notin log[i].bound
                         /\ log[i].ok
    /\ log[1].value = 1 /\ log[2].value = 2
    /\ heap[1].cls = "NoopEventBus" /\ heap[2].cls = "NoopEventBus"
    /\ bindings["NoopEventBus"] = << >>

----
\* C15 as stated (SpecInstance): a get(S) whose latest binding carries a
\* pre-supplied instance returns exactly that value, whatever the value,
\* builds nothing and writes no cache.
C15_AsStated ==
    \A i \in DOMAIN log :
        log[i].binding.instance # None
        => /\ log[i].ok
           /\ log[i].value = log[i].binding.instance
           /\ log[i].built_after = log[i].built
           /\ log[i].singleton_after = log[i].singleton_before

----
\* C16 (SpecIntercept): an object that get(S) builds carries the routes of
\* the handlers registered for S, in registration order; when S redirects
\* to W, the routes of W's handlers come first, in registration order,
\* followed by those of S's handlers (bind(I, to=W), intercept(W, h1),
\* intercept(I, h2), get(I) applies h1 then h2).
C16_InterceptorOrder ==
    \A i \in DOMAIN log :
        (log[i].ok /\ log[i].value > log[i].built)
        => LET b == log[i].binding
               own == ChainOf(log[i].interceptors, log[i].interface)
               target == IF b.to = NoneT THEN << >>
                         ELSE ChainOf(log[i].interceptors, b.to)
           IN  RoutesOf(log[i].routes_after, log[i].value) = target \o own

\* C16 witness: bind(IWebRouter, to=WebRouter), intercept(WebRouter,
\* handler1), intercept(IWebRouter, handler2), and get(IWebRouter) returned
\* a WebRouter whose routes are handler1's, then handler2's
C16_Witness ==
    /\ Len(log) = 1
    /\ log[1].interface = "IWebRouter" /\ log[1].ok
    /\ log[1].binding.to = "WebRouter"
    /\ interceptors = [WebRouter |-> << "handler1" >>,
                       IWebRouter |-> << "handler2" >>]
    /\ log[1].interceptors = interceptors
    /\ heap[log[1].value].cls = "WebRouter"
    /\ routes[log[1].value] = << "handler1", "handler2" >>

----
\* the log entries of get calls for a service with several bindings
SeveralBindings ==
    {i \in DOMAIN log : /\ log[i].interface \in DOMAIN log[i].registry
                        /\ Len(log[i].registry[log[i].interface]) >= 2}

\* C17 (SpecRegistry): a get(S) for a service with several bindings
\* appended by bind resolves through the one appended last: it returns an
\* instance of that binding's class, newly built when that binding is a
\* transient self-binding and the cached one when it is a singleton.
C17_LastWins ==
    \A i \in SeveralBindings :
        LET bs == log[i].registry[log[i].interface]
            last == bs[Len(bs)]
        IN  /\ log[i].ok
            /\ log[i].value \in DOMAIN heap
            /\ heap[log[i].value].cls = TargetClass(last)
            /\ (last.to = NoneT /\ last.lifetime = "transient")
               => log[i].value > log[i].built
            /\ last.lifetime = "singleton"
               => /\ log[i].interface \in DOMAIN log[i].singleton_after
                  /\ log[i].singleton_after[log[i].interface] = log[i].value

\* C17 witness: bind(IFileSystem, to=S3FileSystem), bind(IFileSystem,
\* to=LocalFileSystem), and get(IFileSystem) returned a LocalFileSystem
C17_Witness ==
    /\ Len(log) = 1
    /\ 1 \in SeveralBindings
    /\ rebound = NoRebind
    /\ log[1].interface = "IFileSystem" /\ log[1].ok
    /\ log[1].registry["IFileSystem"][1].to = "S3FileSystem"
    /\ log[1].registry["IFileSystem"][2].to = "LocalFileSystem"
    /\ heap[log[1].value].cls = "LocalFileSystem"

----
\* the cache a get call's binding selects, as the call left it
CacheAfter(e) ==
    IF e.binding.lifetime = "singleton" THEN e.singleton_after
    ELSE IF e.binding.lifetime = "scoped" THEN e.scope_after
    ELSE EmptyDict

\* the entry of service s in a cache ("absent" when it has none)
EntryOf(cache, s) == IF s \in DOMAIN cache THEN cache[s] ELSE "absent"

\* C18 (SpecRetry): a get(S) that raises, because constructing S or one of
\* its dependencies raised, writes no entry for S: S is absent from the
\* cache its binding selects; the next get(S) under the same binding
\* constructs again (it raises again or returns an object it has newly
\* built); and every cache entry is an object that was built.
C18_NoPartialCacheEntry ==
    /\ \A i \in DOMAIN log :
           ~log[i].ok
           => LET S == log[i].interface
              IN  /\ S \notin DOMAIN CacheAfter(log[i])
                  /\ EntryOf(log[i].singleton_after, S)
                         = EntryOf(log[i].singleton_before, S)
                  /\ EntryOf(log[i].scope_after, S)
                         = EntryOf(log[i].scope_before, S)
    /\ \A i, j \in DOMAIN log :
           (/\ j = i + 1 /\ ~log[i].ok
            /\ log[i].interface = log[j].interface
            /\ log[i].scope = log[j].scope
            /\ log[i].binding = log[j].binding
            /\ log[j].ok)
           => /\ log[j].value > log[j].built
              /\ log[j].value \in DOMAIN heap
    /\ \A s \in DOMAIN singleton : singleton[s] \in DOMAIN heap
    /\ \A sc \in DOMAIN scopes : \A s \in DOMAIN scopes[sc] :
           scopes[sc][s] \in DOMAIN heap

\* C18 witness: MyHandler is a singleton; get(MyHandler) raised while
\* IFileSystem could not be built and left no entry; after
\* bind(IFileSystem, to=InMemoryFileSystem) the next get(MyHandler) built
\* and cached it
C18_Witness ==
    /\ Len(log) = 2
    /\ log[1].interface = "MyHandler" /\ log[1].scope = None
    /\ log[1].binding.lifetime = "singleton"
    /\ ~log[1].ok /\ log[1].error = "TypeError"
    /\ log[1].singleton_after = EmptyDict
    /\ log[2].interface = "MyHandler" /\ log[2].scope = None
    /\ log[2].ok /\ log[2].value > log[2].built
    /\ singleton["MyHandler"] = log[2].value
    /\ heap[log[2].value].cls = "MyHandler"

\* the method the intercept() decorator was applied to has no parameter
\* after self, or its first parameter after self carries no hint
FirstParameterUnusable(sig) == Len(sig) < 2 \/ sig[2].hint = NoneT

\* C19 (as stated): applying @intercept() to a method whose first parameter
\* after self is untyped, or which has no parameter after self, raises an
\* error while the class body runs, so that the module is never installed.
C19_AsStated ==
    (DOMAIN module.decorated # {}
     /\ FirstParameterUnusable(module.decorated.sig))
        => module.error # NoneT /\ ~module.installed

\* the Binding install_module registers for factory method meth of the
\* module: the method as factory, for its declared return type, with the
\* lifetime the decorator was given
FactoryBinding(m, meth) ==
    [service |-> m.methods[meth].service, instance |-> None, to |-> NoneT,
     factory |-> meth, lifetime |-> m.methods[meth].lifetime]

\* the completed get call e was answered under the binding a factory method
\* of the installed module registered
FromFactory(e) ==
    /\ e.module.installed
    /\ e.binding.factory \in DOMAIN e.module.methods
    /\ e.binding = FactoryBinding(e.module, e.binding.factory)

\* C20: once the module is installed, every method it declared with
\* @factory is registered as a binding of the method's return type with the
\* declared lifetime; and two get calls answered under such a binding both
\* succeed, with distinct objects made by the method when the lifetime is
\* transient and with the identical object when it is singleton.
C20_InstallRegistersFactories ==
    /\ module.installed =>
         \A meth \in DOMAIN module.methods :
             module.methods[meth].type = "FactoryInfo" =>
                 /\ module.methods[meth].service \in DOMAIN bindings
                 /\ \E k \in DOMAIN bindings[module.methods[meth].service] :
                        bindings[module.methods[meth].service][k]
                            = FactoryBinding(module, meth)
    /\ \A i, j \in DOMAIN log :
         (i < j /\ log[i].interface = log[j].interface
          /\ FromFactory(log[i]) /\ FromFactory(log[j])) =>
             /\ log[i].ok /\ log[j].ok
             /\ log[i].binding.lifetime = "transient" =>
                    /\ log[i].value # log[j].value
                    /\ heap[log[i].value].cls
                           = ProducedClass(log[i].binding.factory)
                    /\ heap[log[j].value].cls
                           = ProducedClass(log[j].binding.factory)
             /\ log[i].binding.lifetime = "singleton" =>
                    log[i].value = log[j].value

\* two get(IFileSystem) calls after the install of a module whose
\* my_filesystem factory was declared with singleton lifetime, both answered
\* with the one S3FileSystem the method made
C20_Witness ==
    \E i, j \in DOMAIN log :
        /\ i < j
        /\ log[i].interface = "IFileSystem" /\ log[j].interface = "IFileSystem"
        /\ FromFactory(log[i]) /\ FromFactory(log[j])
        /\ log[i].binding.lifetime = "singleton"
        /\ log[i].ok /\ log[j].ok
        /\ log[i].value = log[j].value
        /\ heap[log[i].value].cls = "S3FileSystem"

\* C21: when the with-block of a Scope is left, normally or by an
\* exception, the Scope's cache is empty afterwards whatever it held, and an
\* exception that left the block is raised again by the with statement.
C21_ExitDiscardsCache ==
    [][\A sc \in DOMAIN scopes :
           (~exited[sc] /\ exited'[sc]) =>
               /\ scopes'[sc] = EmptyDict
               /\ with_exit'[sc].raised = with_exit'[sc].exc_type
               /\ ~with_exit'[sc].returned]_vars

\* a with-block in which a get call filled the Scope's cache has been left
\* by an exception: the cache is empty and the exception went on
C21_Witness ==
    \E sc \in DOMAIN scopes :
        /\ exited[sc]
        /\ with_exit[sc].exc_type = "TypeError"
        /\ with_exit[sc].raised = "TypeError"
        /\ scopes[sc] = EmptyDict
        /\ \E i \in DOMAIN log :
               /\ log[i].scope = sc
               /\ log[i].ok
               /\ DOMAIN log[i].scope_after # {}

----
\* the get call of entry e found no cached instance of its service: its
\* binding is transient, or the singleton cache had no entry for it
Uncached(e) ==
    \/ e.binding.lifetime = "transient"
    \/ e.binding.service \notin DOMAIN e.singleton_before

\* the objects built during the get call of entry e
BuiltBy(e) == (e.built + 1)..e.built_after

\* C22 as stated (SpecPrecedence): a get uses exactly one target of the
\* latest binding, instance before to before factory before the service
\* itself: with an instance it returns it and builds nothing; otherwise
\* with to= it returns an instance of the to class and never calls the
\* factory; otherwise with factory= it returns what the factory makes;
\* otherwise it constructs the service (calls answered from a cache set
\* aside).
C22_AsStated ==
    \A i \in DOMAIN log :
        LET e == log[i]
            b == e.binding
        IN  /\ b.instance # None =>
                /\ e.ok /\ e.value = b.instance
                /\ BuiltBy(e) = {}
            /\ (b.instance = None /\ b.to # NoneT /\ Uncached(e)) =>
                /\ e.ok /\ heap[e.value].cls = b.to
                /\ \A h \in BuiltBy(e) : heap[h].cls # ProducedClass("s3_factory")
            /\ (b.instance = None /\ b.to = NoneT /\ b.factory # NoneT
                /\ Uncached(e)) =>
                /\ e.ok /\ heap[e.value].cls = ProducedClass(b.factory)
            /\ (b.instance = None /\ b.to = NoneT /\ b.factory = NoneT
                /\ Uncached(e)) =>
                (e.ok <=> b.service \notin AbstractClasses)

----
\* the class at the end of the to= redirects that start at service s
RECURSIVE FinalTarget(_, _)
FinalTarget(reg, s) ==
    IF LookupBinding(reg, s).to = NoneT THEN s
    ELSE FinalTarget(reg, LookupBinding(reg, s).to)

\* what the chain from service s comes to, hop by hop, each hop by its own
\* binding: "raise" at a scoped hop when there is no scope, "hit" with the
\* entry of the hop's own cache (singleton for a singleton hop, the scope's
\* for a scoped one) when it has one, "new" at the hop without to=; hops
\* are the bindings passed on the way
RECURSIVE ChainWalk(_, _, _, _, _)
ChainWalk(reg, sing, held, scope, s) ==
    LET b == LookupBinding(reg, s)
    IN  IF b.lifetime = "scoped" /\ scope = None
        THEN [kind |-> "raise", value |-> None, hops |-> << >>]
        ELSE IF b.lifetime = "singleton" /\ s \in DOMAIN sing
        THEN [kind |-> "hit", value |-> sing[s], hops |-> << >>]
        ELSE IF b.lifetime = "scoped" /\ s \in DOMAIN held
        THEN [kind |-> "hit", value |-> held[s], hops |-> << >>]
        ELSE IF b.to = NoneT
        THEN [kind |-> "new", value |-> None, hops |-> << b >>]
        ELSE LET r == ChainWalk(reg, sing, held, scope, b.to)
             IN  [r EXCEPT !.hops = << b >> \o @]

\* the entry of service s in cache c, None when it has none
Entry(c, s) == IF s \in DOMAIN c THEN c[s] ELSE None

\* C23 (SpecChain): get(S) on a chain of to= redirects goes from hop to hop
\* until a hop answers from its own cache or has no to=; it fails only with
\* the scope-required error of a scoped hop reached without a scope; what
\* it returns is an instance of the class at the end of the chain; and on
\* success every hop passed has stored the returned object in the cache
\* its own lifetime selects (singleton cache, the scope's cache, or none),
\* under its own service.
C23_ChainTransitive ==
    \A i \in DOMAIN log :
        LET e == log[i]
            r == ChainWalk(e.registry, e.singleton_before, e.scope_before,
                           e.scope, e.interface)
        IN  /\ r.kind = "raise" =>
                /\ ~e.ok /\ e.error = "BindingIsScoped"
                /\ e.singleton_after = e.singleton_before
                /\ e.scope_after = e.scope_before
                /\ BuiltBy(e) = {}
            /\ r.kind = "hit" =>
                /\ e.ok /\ e.value = r.value /\ BuiltBy(e) = {}
            /\ r.kind = "new" =>
                /\ e.ok /\ BuiltBy(e) = {e.value}
            /\ e.ok =>
                /\ heap[e.value].cls = FinalTarget(e.registry, e.interface)
                /\ \A h \in DOMAIN r.hops :
                       LET b == r.hops[h]
                       IN  /\ Entry(e.singleton_after, b.service) =
                                 IF b.lifetime = "singleton" THEN e.value
                                 ELSE Entry(e.singleton_before, b.service)
                           /\ Entry(e.scope_after, b.service) =
                                 IF b.lifetime = "scoped" THEN e.value
                                 ELSE Entry(e.scope_before, b.service)

\* scope.get(IReadOnlyDb) on the chain with a transient first hop, a
\* singleton second hop and a scoped Db: one Db is built, stored under IDb
\* in the singleton cache and under Db in the scope's cache, and not stored
\* under IReadOnlyDb
C23_Witness ==
    \E i \in DOMAIN log :
        LET e == log[i]
        IN  /\ e.interface = "IReadOnlyDb" /\ e.scope = 1 /\ e.ok
            /\ LookupBinding(e.registry, "IReadOnlyDb").lifetime = "transient"
            /\ LookupBinding(e.registry, "IDb").lifetime = "singleton"
            /\ LookupBinding(e.registry, "Db").lifetime = "scoped"
            /\ BuiltBy(e) = {e.value}
            /\ heap[e.value].cls = "Db"
            /\ Entry(e.singleton_after, "IDb") = e.value
            /\ Entry(e.scope_after, "Db") = e.value
            /\ "IReadOnlyDb" \notin DOMAIN e.singleton_after
            /\ "IReadOnlyDb" \notin DOMAIN e.scope_after

----
\* the service under which the dependency fs: IFileSystem of MyHandler is
\* scoped: IFileSystem when its binding is scoped, InMemoryFileSystem when
\* IFileSystem is a transient redirect to a scoped InMemoryFileSystem, None
\* when the dependency is not scoped
ScopedDependency(cfg) ==
    IF cfg["IFileSystem"].lifetime = "scoped" THEN "IFileSystem"
    ELSE IF /\ cfg["IFileSystem"].lifetime = "transient"
            /\ cfg["IFileSystem"].to = "InMemoryFileSystem"
            /\ cfg["InMemoryFileSystem"].lifetime = "scoped"
    THEN "InMemoryFileSystem"
    ELSE NoneT

\* C24 (SpecParam): with MyHandler transient and its dependency scoped,
\* every scope.get(MyHandler) succeeds with a new MyHandler whose fs is the
\* entry of the dependency in that Scope's cache, so that two calls through
\* one Scope give distinct handlers with the identical fs; and every
\* kernel.get(MyHandler) raises BindingIsScoped.
C24_ParamsKeepScope ==
    \A i \in DOMAIN log :
        (log[i].interface = "MyHandler"
         /\ ScopedDependency(log[i].cfg) # NoneT) =>
            /\ log[i].scope = None =>
                   ~log[i].ok /\ log[i].error = "BindingIsScoped"
            /\ log[i].scope # None =>
                /\ log[i].ok
                /\ log[i].value \in BuiltBy(log[i])
                /\ heap[log[i].value].cls = "MyHandler"
                /\ heap[log[i].value].attrs["fs"] =
                       Entry(log[i].scope_after, ScopedDependency(log[i].cfg))
                /\ heap[heap[log[i].value].attrs["fs"]].cls
                       = "InMemoryFileSystem"
                /\ \A j \in DOMAIN log :
                       (i < j /\ log[j].interface = "MyHandler"
                        /\ log[j].scope = log[i].scope) =>
                           /\ log[j].ok
                           /\ log[j].value # log[i].value
                           /\ heap[log[j].value].attrs["fs"]
                                  = heap[log[i].value].attrs["fs"]

\* two scope.get(MyHandler) calls through Scope 1 with IFileSystem scoped:
\* two handlers, one InMemoryFileSystem, held by the Scope
C24_Witness ==
    /\ Len(log) >= 2
    /\ log[1].interface = "MyHandler" /\ log[2].interface = "MyHandler"
    /\ log[1].scope = 1 /\ log[2].scope = 1
    /\ log[1].cfg["IFileSystem"].lifetime = "scoped"
    /\ log[1].ok /\ log[2].ok
    /\ log[1].value # log[2].value
    /\ heap[log[1].value].attrs["fs"] = heap[log[2].value].attrs["fs"]
    /\ scopes[1]["IFileSystem"] = heap[log[1].value].attrs["fs"]

----
\* the handlers run for the hops passed, innermost hop first: each hop
\* that got no answer from its cache runs the chain of its own service on
\* the instance it obtained
RECURSIVE RanChains(_, _)
RanChains(ic, hops) ==
    IF hops = << >> THEN << >>
    ELSE RanChains(ic, Tail(hops)) \o ChainOf(ic, Head(hops).service)

\* C25 (SpecCacheHit): a get answered from the cache of its service
\* returns the cached instance, builds nothing and runs no interceptor; in
\* general a get builds at most one object (none when a hop's cache
\* answers) and runs, on the returned instance only, the chains of just the
\* hops that found no cache entry -- so that for a singleton or scoped
\* service the target and the service's interceptors run once for the
\* cached instance, however many get calls hit the cache afterwards.
C25_HitRunsNothing ==
    \A i \in DOMAIN log :
        LET e == log[i]
            r == ChainWalk(e.registry, e.singleton_before, e.scope_before,
                           e.scope, e.interface)
        IN  /\ r.kind = "hit" =>
                /\ e.ok /\ e.value = r.value /\ BuiltBy(e) = {}
            /\ (r.kind = "hit" /\ r.hops = << >>) =>
                e.routes_after = e.routes_before
            /\ r.kind = "new" => e.ok /\ BuiltBy(e) = {e.value}
            /\ ~e.ok => e.routes_after = e.routes_before /\ BuiltBy(e) = {}
            /\ e.ok =>
                /\ RoutesOf(e.routes_after, e.value) =
                       RoutesOf(e.routes_before, e.value)
                           \o RanChains(e.interceptors, r.hops)
                /\ \A o \in DOMAIN heap :
                       o # e.value => RoutesOf(e.routes_after, o)
                                          = RoutesOf(e.routes_before, o)

\* WebRouter singleton with handler1 registered: the first get(WebRouter)
\* built the router and ran handler1, the second returned the same router,
\* built nothing and ran nothing
C25_Witness ==
    /\ Len(log) >= 2
    /\ log[1].interface = "WebRouter" /\ log[2].interface = "WebRouter"
    /\ log[1].binding.lifetime = "singleton"
    /\ log[1].interceptors = [WebRouter |-> << "handler1" >>]
    /\ log[2].interceptors = log[1].interceptors
    /\ log[1].ok /\ log[2].ok
    /\ log[1].value = log[2].value
    /\ BuiltBy(log[1]) = {log[1].value} /\ BuiltBy(log[2]) = {}
    /\ log[2].routes_after[log[2].value] = << "handler1" >>

----
\* thread t is at the cache test before the lock, in a get of a singleton
\* service whose instance is in the singleton cache
AtCachedSingleton(t) ==
    /\ threads[t].status = "running"
    /\ Top(threads[t]).pc = "check"
    /\ Top(threads[t]).binding.lifetime = "singleton"
    /\ Top(threads[t]).binding.service \in DOMAIN singleton

\* the step takes the singleton lock for thread t (once more, if t has it)
Acquires(t) ==
    /\ singleton_lock'.owner = t
    /\ singleton_lock'.count > singleton_lock.count

\* C26 (SpecLock): a thread whose get(S) finds the singleton S cached is
\* never made to wait, whoever holds the lock, and its next step returns
\* the cached instance to the caller with the lock untouched; the singleton
\* cache never loses an entry; and the lock is only ever taken by an
\* activation whose own binding is singleton and whose cache test found no
\* entry, so that a resolution of transient bindings never takes it.
C26_HitTakesNoLock ==
    [][\A t \in ThreadIds :
          /\ AtCachedSingleton(t) =>
                /\ ~Blocked(K, t, threads[t])
                /\ threads'[t] # threads[t] =>
                      /\ singleton_lock' = singleton_lock
                      /\ Len(threads'[t].stack) = Len(threads[t].stack) - 1
                      /\ Len(threads[t].stack) = 1 =>
                            /\ threads'[t].status = "done" /\ threads'[t].ok
                            /\ threads'[t].value
                                 = singleton[threads[t].interface]
          /\ Acquires(t) =>
                /\ Top(threads[t]).binding.lifetime = "singleton"
                /\ Top(threads[t]).binding.service \in threads[t].missed
          /\ \A s \in DOMAIN singleton :
                s \in DOMAIN singleton' /\ singleton'[s] = singleton[s]
      ]_vars

\* thread 1 holds the singleton lock while it builds MyHandler, the
\* singleton InMemoryFileSystem is cached, and thread 2, which called
\* get(InMemoryFileSystem), has returned the cached instance without ever
\* finding the cache empty
C26_Witness ==
    /\ singleton_lock.owner = 1
    /\ threads[1].status = "running" /\ threads[1].interface = "MyHandler"
    /\ "MyHandler" \notin DOMAIN singleton
    /\ LookupBinding(bindings, "InMemoryFileSystem").lifetime = "singleton"
    /\ "InMemoryFileSystem" \in DOMAIN singleton
    /\ threads[2].status = "done" /\ threads[2].ok
    /\ threads[2].interface = "InMemoryFileSystem"
    /\ threads[2].value = singleton["InMemoryFileSystem"]
    /\ threads[2].missed = {}

----
\* C27 as stated (SpecPartial): a get call that raises leaves the singleton
\* cache and the cache of the Scope it went through exactly as they were.
C27_AsStated ==
    \A i \in DOMAIN log :
        ~log[i].ok => /\ log[i].singleton_after = log[i].singleton_before
                      /\ log[i].scope_after = log[i].scope_before

\* the entries cache "after" has and cache "before" had not
NewEntries(before, after) == DOMAIN after \ DOMAIN before

\* C27 (SpecPartial): a get call that raises changes no entry a cache held
\* before, and writes none for the service asked for; an entry it leaves
\* behind is that of a dependency whose own resolution was completed during
\* the call: an object built during the call, of the class the dependency's
\* binding leads to, stored in the cache the dependency's lifetime selects.
C27_OnlyCompletedDependencies ==
    \A i \in DOMAIN log :
        LET e == log[i]
        IN  ~e.ok =>
            /\ \A s \in DOMAIN e.singleton_before :
                   Entry(e.singleton_after, s) = e.singleton_before[s]
            /\ \A s \in DOMAIN e.scope_before :
                   Entry(e.scope_after, s) = e.scope_before[s]
            /\ e.interface \notin NewEntries(e.singleton_before,
                                             e.singleton_after)
            /\ e.interface \notin NewEntries(e.scope_before, e.scope_after)
            /\ \A s \in NewEntries(e.singleton_before, e.singleton_after) :
                   /\ LookupBinding(e.registry, s).lifetime = "singleton"
                   /\ e.singleton_after[s] \in BuiltBy(e)
                   /\ heap[e.singleton_after[s]].cls
                          = FinalTarget(e.registry, s)
            /\ \A s \in NewEntries(e.scope_before, e.scope_after) :
                   /\ LookupBinding(e.registry, s).lifetime = "scoped"
                   /\ e.scope_after[s] \in BuiltBy(e)
                   /\ heap[e.scope_after[s]].cls = FinalTarget(e.registry, s)

\* kernel.get(NewTypeHandler) with IFileSystem singleton and
\* NetworkedFileSystem scoped raised BindingIsScoped at the second
\* parameter; the InMemoryFileSystem built for the first one stays in the
\* singleton cache
C27_Witness ==
    /\ Len(log) = 1
    /\ log[1].interface = "NewTypeHandler" /\ log[1].scope = None
    /\ ~log[1].ok /\ log[1].error = "BindingIsScoped"
    /\ log[1].singleton_before = EmptyDict
    /\ DOMAIN singleton = {"IFileSystem"}
    /\ heap[singleton["IFileSystem"]].cls = "InMemoryFileSystem"

----
\* C28 as stated (SpecOptional): a get call leaves the keys of the binding
\* registry as they were; and get(BusHandler), whose parameter bus:
\* ISimpleEventBus has a default, succeeds with the default (None) for bus
\* whenever no bind call has been made for ISimpleEventBus, whatever get
\* calls came before.
C28_AsStated ==
    \A i \in DOMAIN log :
        /\ log[i].keys_after = log[i].keys
        /\ (log[i].interface = "BusHandler"
            /\ "ISimpleEventBus" \notin log[i].bound) =>
               /\ log[i].ok
               /\ heap[log[i].value].attrs["bus"] = None

----
\* C29 as stated (SpecFactory): a factory() declaration on a method without
\* return annotation raises while the class body runs, so that no declared
\* factory method, and no Binding of the registry, has None as its service.
C29_AsStated ==
    /\ \A meth \in DOMAIN module.methods :
           module.methods[meth].type = "FactoryInfo" =>
               module.methods[meth].service # NoneT
    /\ \A s \in DOMAIN bindings : \A n \in DOMAIN bindings[s] :
           bindings[s][n].service # NoneT

----
\* the activations of thread t that are inside "with self._singleton_lock:"
HeldFrames(t) ==
    {i \in DOMAIN threads[t].stack : threads[t].stack[i].held}

\* the lock is held as often as its owner has entered it, by nobody else,
\* and by nobody when no activation is inside it
LockMatchesFrames ==
    /\ \A t \in ThreadIds :
           Cardinality(HeldFrames(t)) =
               IF singleton_lock.owner = t THEN singleton_lock.count ELSE 0
    /\ singleton_lock.owner = 0 <=> singleton_lock.count = 0
    /\ singleton_lock.owner \in ThreadIds \cup {0}

\* C30 (FairThreads): the singleton lock is held exactly by the
\* activations that are inside its with-block (entered again by a
\* singleton's singleton dependencies, left on return and on raise, free
\* when no get is running), and every get call a thread has started ends,
\* with an instance or an exception.
C30_EveryGetEnds ==
    /\ [](LockMatchesFrames)
    /\ \A t \in ThreadIds :
           (threads[t].status = "running") ~> (threads[t].status = "done")

\* all threads called get(MyHandler) with MyHandler, IFileSystem and
\* InMemoryFileSystem singletons, all found the cache empty at first, all
\* have returned the one handler, and the lock is free
C30_Witness ==
    /\ LookupBinding(bindings, "MyHandler").lifetime = "singleton"
    /\ LookupBinding(bindings, "IFileSystem").lifetime = "singleton"
    /\ LookupBinding(bindings, "IFileSystem").to = "InMemoryFileSystem"
    /\ LookupBinding(bindings, "InMemoryFileSystem").lifetime = "singleton"
    /\ \A t \in ThreadIds :
           /\ threads[t].status = "done" /\ threads[t].ok
           /\ threads[t].interface = "MyHandler"
           /\ "MyHandler" \in threads[t].missed
           /\ threads[t].value = singleton["MyHandler"]
    /\ singleton_lock = [owner |-> 0, count |-> 0]

----
\* the pairs (j, i) of get calls for one service, the earlier one answered
\* through a singleton binding, the later one through a singleton binding
\* appended after the earlier call
AppendedAfterCached ==
    {p \in (DOMAIN log) \X (DOMAIN log) :
        /\ p[1] < p[2]
        /\ log[p[1]].interface = log[p[2]].interface
        /\ log[p[1]].ok
        /\ log[p[1]].binding.lifetime = "singleton"
        /\ log[p[2]].binding.lifetime = "singleton"
        /\ Len(log[p[2]].registry[log[p[2]].interface])
               > Len(log[p[1]].registry[log[p[1]].interface])}

\* C31 (SpecAppend): once get(S) has cached a singleton instance, a
\* get(S) made after a further singleton binding of S was appended by
\* bind, whatever its to= or factory=, returns that same instance: it is
\* the entry the singleton cache held under S, nothing is built and the
\* cache is left as it was.
C31_CachedSingletonKept ==
    \A p \in AppendedAfterCached :
        LET j == log[p[1]]
            i == log[p[2]]
        IN  /\ i.ok
            /\ i.value = j.value
            /\ i.interface \in DOMAIN i.singleton_before
            /\ i.value = i.singleton_before[i.interface]
            /\ i.built_after = i.built
            /\ i.singleton_after = i.singleton_before

\* C31 witness: bind(IFileSystem, to=S3FileSystem, singleton), get,
\* bind(IFileSystem, to=LocalFileSystem, singleton), get: the second get
\* returned the S3FileSystem of the first
C31_Witness ==
    /\ Len(log) = 2
    /\ <<1, 2>> \in AppendedAfterCached
    /\ log[1].binding.to = "S3FileSystem"
    /\ log[2].binding.to = "LocalFileSystem"
    /\ log[2].ok /\ log[2].value = log[1].value
    /\ heap[log[2].value].cls = "S3FileSystem"

----
\* the step closes Scope sc
Closes(sc) == sc \in DOMAIN exited /\ ~exited[sc] /\ exited'[sc]

\* C32 (SpecClose): a step that closes a scope empties that scope's cache
\* and changes nothing else: the singleton cache, the registry, the
\* objects built and the caches of the other scopes are as before, and
\* every singleton entry a get call through that scope left behind is
\* still in the singleton cache, the same object with the same arguments.
C32_CloseTouchesOwnCacheOnly ==
    [][\A sc \in DOMAIN scopes :
           Closes(sc) =>
               /\ scopes'[sc] = EmptyDict
               /\ \A o \in DOMAIN scopes \ {sc} : scopes'[o] = scopes[o]
               /\ singleton' = singleton
               /\ bindings' = bindings
               /\ heap' = heap
               /\ \A i \in DOMAIN log :
                      log[i].scope = sc =>
                          \A s \in DOMAIN log[i].singleton_after :
                              /\ s \in DOMAIN singleton'
                              /\ singleton'[s] = log[i].singleton_after[s]]_vars

\* C32 witness: MyHandler (singleton) was built by get through scope 1 with
\* the scoped IFileSystem of that scope, scope 2 holds an instance of its
\* own, scope 1 is closed and scope 2 open: the handler is still cached
\* with the file system it was given, scope 2's cache is as it was
C32_Witness ==
    /\ Len(log) = 2
    /\ log[1].scope = 1 /\ log[1].interface = "MyHandler" /\ log[1].ok
    /\ log[1].binding.lifetime = "singleton"
    /\ log[1].cfg["IFileSystem"].lifetime = "scoped"
    /\ "MyHandler" \notin DOMAIN log[1].singleton_before
    /\ log[2].scope = 2 /\ log[2].ok
    /\ exited[1] /\ ~exited[2]
    /\ scopes[1] = EmptyDict
    /\ scopes[2] = log[2].scope_after /\ scopes[2] # EmptyDict
    /\ "MyHandler" \in DOMAIN singleton
    /\ singleton["MyHandler"] = log[1].value
    /\ heap[log[1].value].attrs["fs"] = log[1].scope_after["IFileSystem"]

====
